---- MODULE Spec2Model ----
(***************************************************************************)
(* State-machine model of the chatty agent runtime: the Agent Store        *)
(* (internal/agent_manager.py), the Agent Kernel (internal/kernel.py) and  *)
(* the agent-orchestration tools (internal/agent_tools.py).                *)
(*                                                                         *)
(* One turn of Kernel.run_turn is a sequence of steps of the single main   *)
(* thread: StartTurn (status RUNNING, system prompt refreshed), the LLM    *)
(* call (one action per way it can end), one ExecCall step per iteration   *)
(* of the loop of _execute_tool_calls, and FinishTurn.                     *)
(***************************************************************************)
EXTENDS Integers, Sequences, FiniteSets, TLC

\* ---------------------------------------------------------------- bounds
MaxAgents == 2      \* agents in the store (root included)
MaxBatch == 2       \* tool calls in one tool block
MaxHist == 5        \* messages in one agent's history
MaxCounter == 3     \* tool calls the kernel processes in one run
MaxDepth == 2       \* nesting depth of an argument value
MaxRequests == 2    \* messages written to one server connection
MaxQueue == 1       \* lines waiting in a connection's stdout queue

\* ------------------------------------------------------------ vocabulary
None == "None"

Msg(role, content) == [role |-> role, content |-> content]

\* ----------------------------------------------------------- JSON values
\* A JSON value of an argument is a chain of containers around a leaf:
\* path <<"obj">> is an object holding the leaf under one key, <<"lst">> a
\* one-element list, <<"lst","obj">> a list holding an object, and so on.
\* A leaf of kind "ref" with text X is the string "$X".
RECURSIVE PathsOfLen(_)
PathsOfLen(n) ==
    IF n = 0 THEN {<<>>}
    ELSE {<<c>> \o p : c \in {"obj", "lst"}, p \in PathsOfLen(n - 1)}

Paths == UNION {PathsOfLen(n) : n \in 0..MaxDepth}

Leaf(k, v) == [k |-> k, v |-> v]

Value(path, leaf) == [path |-> path, leaf |-> leaf]

Scalar(leaf) == Value(<<>>, leaf)

NullValue == Scalar(Leaf("null", ""))

RefIds == {"c1"}

\* Result envelope {status, output?, error?}; a missing key reads as null / "".
Success(output) == [status |-> "success", output |-> output, error |-> ""]

Failure(message) == [status |-> "error", output |-> NullValue, error |-> message]

\* ------------------------------------------------------------ Agent Store
AgentContext(id, role, history, status, parent_id, is_main) ==
    [id |-> id, role |-> role, history |-> history, status |-> status,
     parent_id |-> parent_id, is_main |-> is_main]

\* uuid4().hex[:8] is a fresh name; the n-th agent of the store gets "agent-n".
NewAgentId(store) == "agent-" \o ToString(Len(store))

\* create_agent with the system message left out of the new history.
CreateAgentNoSystem(store, mid, role, initial_prompt, sysprompt, parent_id) ==
    LET is_main_agent == (mid = None)
        agent_id == IF is_main_agent THEN "main" ELSE NewAgentId(store)
        history == IF initial_prompt # "" THEN <<Msg("user", initial_prompt)>> ELSE <<>>
        agent == AgentContext(agent_id, role, history,
                              IF is_main_agent THEN "DONE" ELSE "READY",
                              parent_id, is_main_agent)
    IN [store |-> Append(store, agent),
        mid |-> IF is_main_agent THEN agent_id ELSE mid,
        id |-> agent_id]

\* create_agent that takes every agent for the root.
CreateAgentEveryMain(store, mid, role, initial_prompt, sysprompt, parent_id) ==
    LET history == <<Msg("system", sysprompt)>>
                   \o (IF initial_prompt # "" THEN <<Msg("user", initial_prompt)>> ELSE <<>>)
    IN [store |-> Append(store, AgentContext("main", role, history, "DONE", parent_id, TRUE)),
        mid |-> "main",
        id |-> "main"]

\* AgentManager.create_agent: the new store, the new _main_agent_id and the
\* id it returns.
create_agent(store, mid, role, initial_prompt, sysprompt, parent_id) ==
    LET is_main_agent == (mid = None)
        agent_id == IF is_main_agent THEN "main" ELSE NewAgentId(store)
        history == <<Msg("system", sysprompt)>>
                   \o (IF initial_prompt # "" THEN <<Msg("user", initial_prompt)>> ELSE <<>>)
        agent == AgentContext(agent_id, role, history,
                              IF is_main_agent THEN "DONE" ELSE "READY",
                              parent_id, is_main_agent)
    IN [store |-> Append(store, agent),
        mid |-> IF is_main_agent THEN agent_id ELSE mid,
        id |-> agent_id]

\* The search that keeps the last READY agent it meets.
GetLastReady(store) ==
    IF \E i \in 1..Len(store) : store[i].status = "READY"
    THEN CHOOSE i \in 1..Len(store) :
            /\ store[i].status = "READY"
            /\ \A j \in (i + 1)..Len(store) : store[j].status # "READY"
    ELSE 0

\* AgentManager.get_next_ready_agent: index of the first READY agent in
\* insertion order, 0 for None.
get_next_ready_agent(store) ==
    IF \E i \in 1..Len(store) : store[i].status = "READY"
    THEN CHOOSE i \in 1..Len(store) :
            /\ store[i].status = "READY"
            /\ \A j \in 1..(i - 1) : store[j].status # "READY"
    ELSE 0

SetStatus(store, i, s) == [store EXCEPT ![i].status = s]

\* The messages put behind the system message, in front of the others.
InsertHistory(store, i, msgs) ==
    [store EXCEPT ![i].history = <<@[1]>> \o msgs \o Tail(@)]

AppendHistory(store, i, msgs) == [store EXCEPT ![i].history = @ \o msgs]

\* -------------------------------------------------- $ref resolution
\* Kernel._resolve_argument_references applied to one argument value.
\* Returns [ok, val, ref]: ok = FALSE is the ValueError for reference ref.
Resolved(val) == [ok |-> TRUE, val |-> val, ref |-> ""]

InvalidReference(ref) == [ok |-> FALSE, val |-> NullValue, ref |-> ref]

Wrap(prefix, r) ==
    IF r.ok THEN Resolved(Value(prefix \o r.val.path, r.val.leaf)) ELSE r

Rest(v, n) == Value(SubSeq(v.path, n + 1, Len(v.path)), v.leaf)

\* ResolveValue with results_by_id.get(ref_id) in place of the membership
\* test: an unknown reference becomes null.
RECURSIVE ResolveValueLenient(_, _)
ResolveValueLenient(v, results_by_id) ==
    IF v.path = <<>>
    THEN IF v.leaf.k = "ref"
         THEN IF v.leaf.v \in DOMAIN results_by_id
              THEN Resolved(results_by_id[v.leaf.v].output)
              ELSE Resolved(NullValue)
         ELSE Resolved(v)
    ELSE IF Head(v.path) = "obj"
    THEN Wrap(<<"obj">>, ResolveValueLenient(Rest(v, 1), results_by_id))
    ELSE IF Len(v.path) >= 2 /\ v.path[2] = "obj"
         THEN Wrap(<<"lst", "obj">>, ResolveValueLenient(Rest(v, 2), results_by_id))
         ELSE Resolved(v)

RECURSIVE ResolveValue(_, _)
ResolveValue(v, results_by_id) ==
    IF v.path = <<>>
    THEN \* a string starting with "$", or any other scalar
         IF v.leaf.k = "ref"
         THEN IF v.leaf.v \in DOMAIN results_by_id
              THEN Resolved(results_by_id[v.leaf.v].output)
              ELSE InvalidReference(v.leaf.v)
         ELSE Resolved(v)
    ELSE IF Head(v.path) = "obj"
    THEN \* a dict: recurse into its values
         Wrap(<<"obj">>, ResolveValue(Rest(v, 1), results_by_id))
    ELSE \* a list: only items that are dicts are resolved
         IF Len(v.path) >= 2 /\ v.path[2] = "obj"
         THEN Wrap(<<"lst", "obj">>, ResolveValue(Rest(v, 2), results_by_id))
         ELSE Resolved(v)

\* Kernel._resolve_argument_references on the arguments object: its values
\* in key order, stopping at the first invalid reference.
RECURSIVE resolve_argument_references(_, _)
resolve_argument_references(args, results_by_id) ==
    IF args = <<>> THEN [ok |-> TRUE, vals |-> <<>>, ref |-> ""]
    ELSE LET h == ResolveValue(Head(args), results_by_id)
             t == resolve_argument_references(Tail(args), results_by_id)
         IN IF ~h.ok THEN [ok |-> FALSE, vals |-> <<>>, ref |-> h.ref]
            ELSE IF ~t.ok THEN t
            ELSE [ok |-> TRUE, vals |-> <<h.val>> \o t.vals, ref |-> ""]

\* -------------------------------------------------------------- tool calls
\* One element of the JSON array of a tool block. shape "other" is an element
\* that is not an object. call_id None is an absent key. arguments.isObj =
\* FALSE is an arguments field that is not an object (a list, a string, null).
ToolCall(shape, tool_name, call_id, isObj, vals) ==
    [shape |-> shape, tool_name |-> tool_name, call_id |-> call_id,
     arguments |-> [isObj |-> isObj, vals |-> vals]]

Obj(tool_name, call_id, vals) == ToolCall("object", tool_name, call_id, TRUE, vals)

Num7 == Scalar(Leaf("num", "7"))

TaskText == Scalar(Leaf("str", "task"))

RoleText == Scalar(Leaf("str", "W"))

RefValues == {Value(p, Leaf("ref", x)) : p \in Paths, x \in RefIds}

\* The calls the LLM is let to emit: every position a reference can take in
\* the arguments of a plain tool, producers of the id the references name,
\* the agent-orchestration tools (spawn_agent with a prompt and with the
\* empty prompt), an MCP tool, an unknown tool, a call without tool_name,
\* and the malformed elements.
Calls ==
    {Obj("multiply_numbers", None, <<v>>) : v \in RefValues \cup {Num7}}
    \cup {Obj("multiply_numbers", "c1", <<v>>) : v \in {Num7, Scalar(Leaf("ref", "c1"))}}
    \cup {Obj("multiply_numbers", "call_1", <<Num7>>)}
    \cup {Obj("spawn_agent", id, <<RoleText, TaskText>>) : id \in {None, "c1"}}
    \cup {Obj("wait_for_agents", None, a) :
            a \in {<<>>, <<Scalar(Leaf("ref", "c1"))>>, <<Value(<<"lst">>, Leaf("ref", "c1"))>>}}
    \cup {Obj("fetch", None, <<Num7>>), Obj("nope", None, <<Num7>>), Obj(None, None, <<>>)}
    \cup {ToolCall("other", None, None, FALSE, <<>>),
          ToolCall("object", "multiply_numbers", None, FALSE, <<>>)}

Batches == UNION {[1..n -> Calls] : n \in 0..MaxBatch}

\* The calls of a model that spawns: with a prompt and a call id, with the
\* empty prompt, a call that passes the new agent's id on, a wait for it, a
\* call of an MCP tool.
SpawnCalls ==
    {Obj("spawn_agent", "c1", <<RoleText, TaskText>>),
     Obj("spawn_agent", None, <<RoleText, Scalar(Leaf("str", ""))>>),
     Obj("multiply_numbers", None, <<Scalar(Leaf("ref", "c1"))>>),
     Obj("wait_for_agents", None, <<Scalar(Leaf("ref", "c1"))>>),
     Obj("fetch", None, <<Num7>>)}

SpawnBatches == UNION {[1..n -> SpawnCalls] : n \in 0..MaxBatch}

\* Where _execute_tool_calls takes a tool name: the in-process table is asked
\* first, then the name -> server map of the Tool Server Manager.
KernelResolves(tool_name, impls, map) ==
    IF tool_name \in impls THEN "in_process"
    ELSE IF tool_name \in DOMAIN map THEN "mcp"
    ELSE "not_found"

\* Where do_POST takes a tool name: the name -> server map is asked first, then
\* the in-process table.
GatewayResolves(tool_name, impls, map) ==
    IF tool_name \in DOMAIN map THEN "mcp"
    ELSE IF tool_name \in impls THEN "in_process"
    ELSE "not_found"

\* Kernel.all_tool_impls: the in-process table.
all_tool_impls ==
    {"spawn_agent", "llm_request", "wait_for_agents", "get_weather", "multiply_numbers"}

\* How _MCPServerConnection.send_request can end for a child in this state:
\* only a running child answers; a stray line that is JSON but no object
\* raises in either state.
SendRequestOutcomes(process) ==
    IF process = "running" THEN {"timeout", "raised", "isError", "text", "content"}
    ELSE {"timeout", "raised"}

\* server.process of the server the map names for tool_name.
ProcessOf(tool_name, map, procs) ==
    IF tool_name \in DOMAIN map /\ map[tool_name] \in DOMAIN procs
    THEN procs[map[tool_name]] ELSE "none"

\* MCPManager.dispatch_tool_call, given how send_request ends (reply).
dispatch_tool_call(tool_name, map, procs, reply) ==
    IF tool_name \notin DOMAIN map THEN "none"
    ELSE IF map[tool_name] \notin DOMAIN procs \/ procs[map[tool_name]] = "none" THEN "none"
    ELSE IF reply = "timeout" THEN "none" ELSE reply

\* UI.confirm_action: both branches return True.
confirm_action(auto_accept) == TRUE

\* The value returned by the k-th call of the batch (a symbolic result).
OutputOf(k) == Scalar(Leaf("num", "r" \o ToString(k)))

IsNumber(v) == v.path = <<>> /\ v.leaf.k = "num"

EmptyMap == [x \in {} |-> 0]

\* dict[key] = value
Put(map, key, value) == [k \in DOMAIN map \cup {key} |-> IF k = key THEN value ELSE map[k]]

\* ------------------------------------------------- tool implementations
\* The argument dropped on the way to create_agent.
PromptTextLost(v) == ""

\* The text handed to create_agent as role or initial_prompt.
PromptText(v) == IF v.path = <<>> /\ v.leaf.k # "null" THEN v.leaf.v ELSE ""

\* self.all_tool_impls[tool_name](**resolved_args): the envelope of the call
\* (an exception of the implementation is the error envelope of the except
\* clause) and the store after it. k is the call's index in the batch.
InvokeTool(tool_name, vals, store, mid, sysprompt, k) ==
    CASE tool_name = "spawn_agent" ->
            \* spawn_agent(role, prompt): any other set of keys is a TypeError
            IF Len(vals) = 2
            THEN LET c == create_agent(store, mid, PromptText(vals[1]), PromptText(vals[2]),
                                       sysprompt, None)
                 IN [result |-> Success(Scalar(Leaf("str", c.id))), store |-> c.store, mid |-> c.mid]
            ELSE [result |-> Failure("spawn_agent() missing required arguments"),
                  store |-> store, mid |-> mid]
      [] tool_name = "llm_request" ->
            IF Len(vals) = 1
            THEN LET c == create_agent(store, mid, "LLM-Request", PromptText(vals[1]), sysprompt, None)
                 IN [result |-> Success(Scalar(Leaf("str", c.id))), store |-> c.store, mid |-> c.mid]
            ELSE [result |-> Failure("llm_request() missing required arguments"),
                  store |-> store, mid |-> mid]
      [] tool_name = "multiply_numbers" ->
            [result |-> IF Len(vals) = 1 /\ IsNumber(vals[1])
                        THEN Success(OutputOf(k))
                        ELSE Failure("Both 'a' and 'b' must be numbers."),
             store |-> store, mid |-> mid]
      [] tool_name = "get_weather" ->
            [result |-> IF Len(vals) = 1 /\ vals[1] = Scalar(Leaf("str", "London"))
                        THEN Success(Scalar(Leaf("str", "Weather in London: 12C, cloudy.")))
                        ELSE Failure("Weather information is not available."),
             store |-> store, mid |-> mid]
      [] OTHER ->
            [result |-> Success(Scalar(Leaf("str", "{_directive: wait}"))),
             store |-> store, mid |-> mid]

\* The branch of Kernel._execute_tool_calls for an MCP tool, given what
\* dispatch_tool_call returned.
McpEnvelope(tool_name, outcome, k) ==
    CASE outcome = "none" -> Failure("MCP tool dispatch for '" \o tool_name \o "' failed.")
      [] outcome = "isError" -> Failure("mcp error text")
      [] outcome = "raised" -> Failure("'list' object has no attribute 'get'")
      [] outcome = "text" -> Success(Scalar(Leaf("str", "t" \o ToString(k))))
      [] OTHER -> Success(Value(<<"lst", "obj">>, Leaf("str", "t" \o ToString(k))))

\* Dispatch with the lookup of an unknown name answered by a default instead
\* of a KeyError.
DispatchUnknownPasses(tool_name, vals, store, mid, sysprompt, map, outcome, k) ==
    IF tool_name = None
    THEN [result |-> Failure("Tool name is missing or invalid in the tool call."),
          store |-> store, mid |-> mid, called |-> FALSE]
    ELSE IF KernelResolves(tool_name, all_tool_impls, map) = "in_process"
    THEN LET r == InvokeTool(tool_name, vals, store, mid, sysprompt, k)
         IN [result |-> r.result, store |-> r.store, mid |-> r.mid, called |-> TRUE]
    ELSE IF KernelResolves(tool_name, all_tool_impls, map) = "mcp"
    THEN [result |-> McpEnvelope(tool_name, outcome, k),
          store |-> store, mid |-> mid, called |-> TRUE]
    ELSE [result |-> Success(NullValue), store |-> store, mid |-> mid, called |-> FALSE]

\* The try block of Kernel._execute_tool_calls: envelope, store and whether
\* an implementation was called.
Dispatch(tool_name, vals, store, mid, sysprompt, map, outcome, k) ==
    IF tool_name = None
    THEN [result |-> Failure("Tool name is missing or invalid in the tool call."),
          store |-> store, mid |-> mid, called |-> FALSE]
    ELSE IF tool_name \in all_tool_impls
    THEN LET r == InvokeTool(tool_name, vals, store, mid, sysprompt, k)
         IN [result |-> r.result, store |-> r.store, mid |-> r.mid, called |-> TRUE]
    ELSE IF tool_name \in DOMAIN map
    THEN [result |-> McpEnvelope(tool_name, outcome, k),
          store |-> store, mid |-> mid, called |-> TRUE]
    ELSE [result |-> Failure("Tool '" \o tool_name \o "' not found."),
          store |-> store, mid |-> mid, called |-> FALSE]

\* ------------------------------------------------- Tool Server Manager
\* The servers a configuration can name, in the order of the config file.
ServerOrder == <<"demo", "aux">>

ServerNames == {ServerOrder[n] : n \in 1..Len(ServerOrder)}

\* The tool names a server answers tools/list with.
Catalog(s) == IF s = "demo" THEN {"fetch"} ELSE {"greet", "fetch"}

\* startup() was left by the exception of a start() among the first n servers.
Aborted(boots, n) == \E k \in 1..n : boots[ServerOrder[k]] = "spawnerror"

\* The loop of startup() comes to server s, given its place in the order
\* of the configuration.
Reached(boots, s) ==
    LET position == CHOOSE n \in 1..Len(ServerOrder) : ServerOrder[n] = s
    IN  ~Aborted(boots, position - 1)

\* How a server of a configuration comes up in startup(): it is not in the
\* configuration ("absent"); start() returns False ("nostart": invalid entry,
\* command not found); Popen raises an OSError that is no FileNotFoundError,
\* such as the PermissionError of a file that is not executable
\* ("spawnerror"); initialize fails or times out ("noinit"); it initializes and
\* declares no tools capability ("notools"); it initializes and declares the
\* capability as the empty object, "capabilities": {"tools": {}} ("emptycap");
\* it initializes, declares a non-empty tools capability and answers
\* tools/list ("tools").
\* The configurations a reload is given: "demo" comes up in any of the ways,
\* "aux" is not configured or lists its tools.
Configs ==
    {boots \in [ServerNames -> {"absent", "nostart", "spawnerror", "noinit", "notools",
                                "emptycap", "tools"}] :
        boots["aux"] \in {"absent", "tools"}}

\* server.process after startup() for a server that came up this way.
ProcessAfter(boot) ==
    CASE boot \in {"nostart", "spawnerror"} -> "none"
      [] boot = "noinit" -> "dead"
      [] OTHER -> "running"

\* The requests startup() sends to a server: initialize, then one tools/list.
HandshakeRequests(boot) ==
    CASE boot \in {"absent", "nostart", "spawnerror"} -> 0
      [] boot \in {"noinit", "notools", "emptycap"} -> 1
      [] OTHER -> 2

\* MCPManager._reinit: self._tool_to_server_map = {}.
Reinit(map) == EmptyMap

\* _fetch_metadata for server s that came up as boot: when
\* server.capabilities.get("tools") is truthy (an empty object is not), every
\* tool name of tools/list is mapped to s.
FetchMetadata(map, s, boot) ==
    IF boot = "tools"
    THEN [n \in DOMAIN map \cup Catalog(s) |-> IF n \in Catalog(s) THEN s ELSE map[n]]
    ELSE map

\* The loop of MCPManager.startup() over the first n servers, from map.
RECURSIVE StartupFrom(_, _, _)
StartupFrom(map, boots, n) ==
    IF n = 0 THEN map
    ELSE LET before == StartupFrom(map, boots, n - 1)
             s == ServerOrder[n]
         IN IF ~Aborted(boots, n) /\ boots[s] \in {"notools", "emptycap", "tools"}
            THEN FetchMetadata(before, s, boots[s])
            ELSE before

\* MCPManager(config) or reload(config) followed by startup(): the servers of
\* the configuration with the state of their child, and the map.
startup(boots) ==
    [servers |-> [s \in {x \in ServerNames : boots[x] # "absent"} |->
                    IF Reached(boots, s) THEN ProcessAfter(boots[s]) ELSE "none"],
     map |-> StartupFrom(EmptyMap, boots, Len(ServerOrder))]

\* The threads that call the manager: the main thread and a gateway worker.
Threads == {"main", "worker"}

\* A line of a child's stdout: a JSON object with an id ("response"), a JSON
\* object without id ("notification"), a JSON value that is no object
\* ("value"), text that is no JSON ("text"), an empty line ("blank").
Line(kind, id) == [kind |-> kind, id |-> id]

\* None, as the return value of send_request.
NoLine == Line("none", 0)

\* The lock taken without waiting for its holder.
AcquireAnyway(lock) == TRUE

\* with self._comm_lock: the lock can be taken when nobody holds it.
CanAcquire(lock) == lock = None

\* _read_response: response.get("id") == expected_id, for a JSON object.
Matches(line, expected_id) == line.kind = "response" /\ line.id = expected_id

\* -------------------------------------------------------------- sandbox
\* One execution of tool code: where it stands (idle, made: inside the with
\* block, the directory made; written: both files written; running: uv run
\* started; left), whether script_dir exists, which function runs it, whether
\* it is interactive, how the function was left and the "error" it returned.
Execution(at, dir, entry, interactive, left, error) ==
    [pc |-> at, dir |-> dir, entry |-> entry, interactive |-> interactive,
     left |-> left, error |-> error]

\* A directory exit that leaves the directory behind.
ExitKeepsDirectory(dir) == dir

\* tempfile.TemporaryDirectory.__exit__: the directory is removed, however
\* the with block is left.
TemporaryDirectoryExit(dir) == FALSE

\* --------------------------------------------------------- pre-processor
\* Tool code is a text: the sequence of its lines, the lines joined by "\n"
\* (the empty text is one empty line; a text that ends in "\n" ends in an
\* empty line). A line is one of
\*   blank         the empty line
\*   open          # /// script
\*   close         # ///
\*   dep           # dependencies = [...], pkgs the names of its JSON array
\*   import_numpy  import numpy
\*   import_tools  from tools import Tools, MCPToolError
\*   use_tools     x = Tools.get_weather(city="London")
\*   stmt          print(1)
\*   shebang       #!/usr/bin/env python
CodeLine(kind, pkgs) == [kind |-> kind, pkgs |-> pkgs]

\* The lines tool code is made of.
CodeLines ==
    {CodeLine(k, {}) : k \in {"blank", "open", "close", "import_numpy", "import_tools",
                              "use_tools", "stmt", "shebang"}}
        \cup {CodeLine("dep", {"numpy"}), CodeLine("dep", {"tools"})}

\* The longest tool code given, in lines.
MaxLines == 4

\* The texts given to the pre-processor: at most one line opens a block.
Codes ==
    {c \in UNION {[1..n -> CodeLines] : n \in 1..MaxLines} :
        Cardinality({i \in DOMAIN c : c[i].kind = "open"}) <= 1}

\* str.splitlines: a last line that is empty is no line.
splitlines(text) ==
    IF text[Len(text)].kind = "blank" THEN SubSeq(text, 1, Len(text) - 1) ELSE text

\* '\n'.join(lines)
join(lines) == IF lines = <<>> THEN <<CodeLine("blank", {})>> ELSE lines

\* str.strip, for lines that have no blanks of their own.
strip(text) ==
    LET full == {i \in DOMAIN text : text[i].kind # "blank"}
    IN  IF full = {} THEN <<CodeLine("blank", {})>>
        ELSE SubSeq(text, CHOOSE i \in full : \A j \in full : i <= j,
                          CHOOSE i \in full : \A j \in full : j <= i)

\* The first line after line i that is not empty, 0 when there is none:
\* what \s*\n\s* and \s*\n? of the block pattern run over.
NextFull(text, i) ==
    LET full == {j \in DOMAIN text : j > i /\ text[j].kind # "blank"}
    IN  IF full = {} THEN 0 ELSE CHOOSE j \in full : \A k \in full : j <= k

\* The text without the lines first..last and the empty lines after them.
Without(text, first, last) ==
    SubSeq(text, 1, first - 1) \o
        (IF NextFull(text, last) = 0 THEN <<CodeLine("blank", {})>>
         ELSE SubSeq(text, NextFull(text, last), Len(text)))

\* The match of the block pattern in the text,
\*   # /// script\s*\n\s*#\s*dependencies\s*=\s*(\[.*\])\s*\n\s*# ///\s*\n?
\* With re.DOTALL it runs from the opening line over a dependencies line to
\* the last "]" that a closing line follows; without, "]" is on the line of
\* its "[". found; packages, the names of group 2 when it is JSON (it is
\* when it ends on the line it starts on); replaced, the text after
\* code_processor's code.replace(group(1), "", 1); subbed, the text after
\* code_executor's re.sub, which is called without re.DOTALL.
ScriptBlock(text) ==
    LET Closed(k) == NextFull(text, k) # 0 /\ text[NextFull(text, k)].kind = "close"
        Ends(j) == {k \in j..Len(text) : text[k].kind = "dep" /\ Closed(k)}
        starts == {i \in DOMAIN text :
                      /\ text[i].kind = "open"
                      /\ NextFull(text, i) # 0
                      /\ text[NextFull(text, i)].kind = "dep"
                      /\ Ends(NextFull(text, i)) # {}}
        \* the match opens on line i, declares on line j, its "]" is on line k
        Match(i, j, k) ==
            [found |-> TRUE,
             packages |-> IF k = j THEN text[j].pkgs ELSE {},
             replaced |-> Without(text, i, NextFull(text, k)),
             subbed |-> IF Closed(j) THEN Without(text, i, NextFull(text, j)) ELSE text]
        Greedy(i, j) == Match(i, j, CHOOSE a \in Ends(j) : \A b \in Ends(j) : b <= a)
        Leftmost(i) == Greedy(i, NextFull(text, i))
    IN  IF starts = {}
        THEN [found |-> FALSE, packages |-> {}, replaced |-> text, subbed |-> text]
        ELSE Leftmost(CHOOSE a \in starts : \A b \in starts : a <= b)

\* _infer_dependencies, with IMPORT_TO_PACKAGE_MAP: numpy is in the map,
\* tools is not.
infer_dependencies(lines) ==
    IF \E i \in DOMAIN lines : lines[i].kind = "import_numpy" THEN {"numpy"} ELSE {}

\* process_tool_code, to the end of its loop over the lines: the block is
\* taken out (by re.sub in code_executor, by str.replace in code_processor)
\* and every line that declares dependencies is dropped; packages are the
\* names they gave.
Declarations(code, module) ==
    LET Kept(l) == l.kind # "dep"
        Scan(packages, lines) ==
            [packages |-> packages \cup UNION {lines[i].pkgs : i \in DOMAIN lines},
             cleaned_lines |-> SelectSeq(lines, Kept)]
        After(block) ==
            Scan(block.packages,
                 splitlines(IF module = "code_executor" THEN block.subbed ELSE block.replaced))
    IN  After(ScriptBlock(code))

\* process_tool_code, for code that uses the Tools class: the import of the
\* proxy is inserted unless a line imports tools, after the last import, or
\* else at the top, after a shebang.
InsertImport(cleaned_lines) ==
    LET imports == {i \in DOMAIN cleaned_lines :
                      cleaned_lines[i].kind \in {"import_numpy", "import_tools"}}
        insert_pos ==
            IF imports # {} THEN CHOOSE i \in imports : \A j \in imports : j <= i
            ELSE IF cleaned_lines # <<>> /\ cleaned_lines[1].kind = "shebang" THEN 1
            ELSE 0
    IN  IF \E i \in DOMAIN cleaned_lines : cleaned_lines[i].kind = "import_tools"
        THEN cleaned_lines
        ELSE SubSeq(cleaned_lines, 1, insert_pos) \o <<CodeLine("import_tools", {})>>
                \o SubSeq(cleaned_lines, insert_pos + 1, Len(cleaned_lines))

\* process_tool_code of the module: the text for uv run (what code_executor's
\* returns, and "uv_code" of what code_processor's returns).
process_tool_code(code, module) ==
    LET Emit(packages, final_lines) ==
            strip((IF packages # {}
                   THEN <<CodeLine("open", {}), CodeLine("dep", packages),
                          CodeLine("close", {})>>
                   ELSE <<>>) \o join(final_lines))
        Infer(packages, final_lines) ==
            Emit(packages \cup infer_dependencies(final_lines), final_lines)
        Correct(packages, cleaned_lines, is_tool_class_used) ==
            IF is_tool_class_used
            THEN Infer((packages \cup {"requests"}) \ {"tools"}, InsertImport(cleaned_lines))
            ELSE Infer(packages, cleaned_lines)
        Check(declared) ==
            Correct(declared.packages, declared.cleaned_lines,
                    \E i \in DOMAIN declared.cleaned_lines :
                        declared.cleaned_lines[i].kind = "use_tools")
    IN  Check(Declarations(code, module))

\* ------------------------------------------------------ paginated discovery
\* What a server holds for tools/list: for the request without cursor (None) and
\* for each cursor, either no usable response (ok FALSE: a timeout or an error
\* object) or a page: its tools and its nextCursor (None: the key is absent).
\* A cursor names a later page, so a listing ends.
Listings ==
    LET Answers(next) ==
            {[ok |-> FALSE, tools |-> <<>>, nextCursor |-> None]}
            \cup {[ok |-> TRUE, tools |-> tools, nextCursor |-> n] :
                    tools \in {<<>>, <<"fetch">>, <<"greet", "multiply_numbers">>},
                    n \in {None, ""} \cup next}
    IN {[c \in {None, "c1", "c2"} |-> IF c = None THEN a0 ELSE IF c = "c1" THEN a1 ELSE a2] :
          a0 \in Answers({"c1", "c2"}), a1 \in Answers({"c2"}), a2 \in Answers({})}

\* Asks for the first page and takes it for the whole list.
FetchFirstPage(listing, cursor, requests, full_list) ==
    [requests |-> <<cursor>>,
     full_list |-> IF listing[cursor].ok THEN listing[cursor].tools ELSE <<>>]

\* _fetch_paginated_list, from the top of its loop: cursor is the cursor of the
\* next request (None: the request has no cursor), requests the cursors sent so
\* far and full_list the tools got so far.
RECURSIVE fetch_paginated_list(_, _, _, _)
fetch_paginated_list(listing, cursor, requests, full_list) ==
    LET response == listing[cursor]
        sent == Append(requests, cursor)
    IN IF ~response.ok
       THEN [requests |-> sent, full_list |-> full_list]
       ELSE IF response.nextCursor \in {None, ""}
            THEN [requests |-> sent, full_list |-> full_list \o response.tools]
            ELSE fetch_paginated_list(listing, response.nextCursor, sent,
                                      full_list \o response.tools)

\* -------------------------------------------------------------- agentlib
\* TOOL_METADATA: the risk of the tools it names.
TOOL_METADATA ==
    [read_file |-> "low", list_files |-> "low", glob_files |-> "low", search_file |-> "low",
     write_file |-> "high", edit_file |-> "high", shell_command |-> "high"]

\* A gate that lets every tool pass.
NeverHighRisk(tool_name) == FALSE

\* TOOL_METADATA.get(tool_name, {}).get("risk") == "high"
HighRisk(tool_name) == tool_name \in DOMAIN TOOL_METADATA /\ TOOL_METADATA[tool_name] = "high"

\* What execute_tool is called with and on: the text of the call (its name,
\* whether "(...)" follows the name, and its arguments: written key="value",
\* written key=value, or none), the names in self.tools (get_tools(), or the
\* read-only tools and a tool of the agent's own), confirm_callback (not set,
\* or what it returns), and whether the tool's function returns or raises.
ToolCallsGiven ==
    [name : {"read_file", "search_file", "write_file", "edit_file", "shell_command",
             "deploy", "nope"},
     parens : BOOLEAN,
     args_str : {"quoted", "unquoted", "none"},
     tools : {DOMAIN TOOL_METADATA, {"read_file", "search_file", "deploy"}},
     confirm_callback : {None, "true", "false"},
     function : {"returns", "raises"}]

NoToolCall == [name |-> None]

\* dict(re.findall(r'(\w+)="(.*?)"', args_str)): only key="value" is found.
ParsedArgs(args_str) == IF args_str = "quoted" THEN "path=/test.txt" ELSE "no arguments"

\* What an execution did: the (name, arguments) confirm_callback was asked
\* about, the (name, arguments) the tool's function was called with, and
\* the value returned.
Executed(asked, invoked, result) == [asked |-> asked, invoked |-> invoked, result |-> result]

NotExecuted == Executed(<<>>, <<>>, None)

\* AgentManager.execute_tool
execute_tool(call) ==
    LET args == ParsedArgs(call.args_str)
        asked == IF HighRisk(call.name) /\ call.confirm_callback # None
                 THEN <<<<call.name, args>>>> ELSE <<>>
    IN  IF ~call.parens THEN Executed(<<>>, <<>>, "Invalid tool call format.")
        ELSE IF call.name \notin call.tools THEN Executed(<<>>, <<>>, "Tool not found.")
        ELSE IF HighRisk(call.name) /\ call.confirm_callback # "true"
        THEN Executed(asked, <<>>, "Tool execution cancelled by user.")
        ELSE Executed(asked, <<<<call.name, args>>>>,
                      IF call.function = "returns" THEN "returned" ELSE "Error executing tool")

\* A POST to the gateway: its path, what its body is (a JSON object, a JSON
\* value that is no object, text that is no JSON), and for an object the
\* values under "tool_name" and "arguments", written as their JSON text.
\* A tool_name that is a JSON array.
ListName == "[\"x\"]"

\* The values under "arguments" that requests carry.
Args ==
    [London |-> "{\"city\":\"London\"}", Paris |-> "{\"city\":\"Paris\"}",
     CityNumber |-> "{\"city\":5}", Town |-> "{\"town\":\"London\"}",
     Numbers |-> "{\"a\":6,\"b\":7}", List |-> "[1]"]

Requests ==
    [path : {"/mcp_tool_call", "/other"},
     body : {"object", "value", "text"},
     tool_name : {"fetch", "get_weather", "multiply_numbers", "nope", None, ListName},
     arguments : {Args[k] : k \in DOMAIN Args}]

NoRequest == [path |-> None, body |-> None, tool_name |-> None, arguments |-> None]

\* INTERNAL_TOOL_IMPLEMENTATIONS, the table the gateway is started with.
internal_tool_impls == {"get_weather", "multiply_numbers"}

\* The arguments bind to the parameters of the tool and have their types:
\* get_weather(city: str), multiply_numbers(a, b).
Fits(tool_name, arguments) ==
    \/ tool_name = "get_weather" /\ arguments \in {Args.London, Args.Paris}
    \/ tool_name = "multiply_numbers" /\ arguments = Args.Numbers

\* self.internal_tool_impls[tool_name](**kwargs): it returns, or raises
\* TypeError (** of a list, a keyword that is no parameter, the tool's own
\* type test) or ValueError (get_weather for a city it has no data for).
CallInternal(tool_name, arguments) ==
    IF ~Fits(tool_name, arguments) THEN "TypeError"
    ELSE IF tool_name = "get_weather" /\ arguments = Args.Paris THEN "ValueError"
    ELSE "returns"

\* What _send_response writes: code, and the fields of the JSON payload
\* ("absent" for a key the payload does not have). result is "null",
\* "object" (a dict with a content list and a boolean isError) or "absent".
Reply(code, status, type, message, result) ==
    [code |-> code, status |-> status, type |-> type, message |-> message, result |-> result]

\* No answer yet.
NoReply == Reply(0, "absent", "absent", "absent", "absent")

\* do_POST was left by an exception: nothing is written to the client.
NoResponse == Reply(-1, "absent", "absent", "absent", "absent")

ErrorReply(code, type) == Reply(code, "error", type, "present", "absent")

\* UnifiedRequestHandler.do_POST, given the name->server map and how
\* dispatch_tool_call ends for an MCP tool.
do_POST(req, map, outcome) ==
    IF req.path # "/mcp_tool_call"
    THEN Reply(404, "error", "absent", "present", "absent")
    ELSE IF req.body = "text"
    THEN \* json.loads raises; the handler's message reads tool_name, unbound
         NoResponse
    ELSE IF req.body = "value"
    THEN \* post_data.get: AttributeError
         ErrorReply(500, "TOOL_EXECUTION_ERROR")
    ELSE IF req.tool_name = ListName
    THEN \* tool_name in dict: TypeError, unhashable type
         ErrorReply(400, "INVALID_TOOL_ARGUMENTS")
    ELSE IF GatewayResolves(req.tool_name, internal_tool_impls, map) = "mcp"
    THEN IF outcome = "raised"
         THEN ErrorReply(500, "TOOL_EXECUTION_ERROR")
         ELSE \* the result is what dispatch_tool_call returned: None, or the
                \* result object of the server's response
                Reply(200, "success", "absent", "absent",
                      IF outcome = "none" THEN "null" ELSE "object")
    ELSE IF GatewayResolves(req.tool_name, internal_tool_impls, map) = "in_process"
    THEN IF CallInternal(req.tool_name, req.arguments) = "returns"
         THEN Reply(200, "success", "absent", "absent", "object")
         ELSE ErrorReply(400, "INVALID_TOOL_ARGUMENTS")
    ELSE ErrorReply(404, "TOOL_NOT_FOUND")

VARIABLES
    agents,                 \* AgentManager._agents, in insertion order
    main_agent_id,          \* AgentManager._main_agent_id
    tool_call_id_counter,   \* Kernel._tool_call_id_counter
    streaming,              \* Kernel.streaming
    system_prompt,          \* what system_prompt_generator() returns now
    tool_to_server_map,     \* MCPManager._tool_to_server_map
    servers,                \* MCPManager.servers: name -> state of server.process
    mcp_config,             \* the configuration last loaded: how each server comes up
    comm_lock,              \* _comm_lock of the connection of "demo": its holder
    request_id_counter,     \* its _request_id_counter: the last id drawn
    stdin,                  \* the ids of the messages written to its child (0: a notification)
    stdout_queue,           \* its stdout_queue
    old_queue,              \* stdout_queue of the connection a reload replaced under a reader
    tpc,                    \* position of each thread that calls the manager
    treq,                   \* the request id each thread waits for
    tret,                   \* what send_request returned to each thread
    gateway,                \* UnifiedRequestHandler: the request in do_POST and its answer
    sandbox,                \* execute_python_code: its position, its directory, how it was left
    preprocessor,           \* process_tool_code: the text given, the output of each application
    agentlib,               \* agentlib's AgentManager: the tool call given, what execute_tool did
    creating,              \* create_agent: where each calling thread stands, the agent it built
    discovery,             \* _fetch_metadata: the pages a server holds, the cursors sent, the list got
    loop,                  \* the main loop by statuses: status of each agent, the agent in its turn
    repl,                  \* run_conversation_loop: its loop-prevention fields, where it stands, what became of each tool code
    pc,                     \* position of the main thread
    cur,                    \* index in agents of the agent run_turn works on
    hlen,                   \* length of its history when run_turn was entered
    response,               \* kind of what the last _call_llm returned
    tool_calls,             \* the parsed tool block
    idx,                    \* index of the next call of the loop
    results,                \* _execute_tool_calls: results
    call_results_by_id,     \* _execute_tool_calls: call_results_by_id
    invoked                 \* tool implementations invoked by this batch

\* The connection of server "demo" and the threads that use it.
connection == <<comm_lock, request_id_counter, stdin, stdout_queue, old_queue, tpc, treq, tret>>

\* The parts of the program outside the Kernel and the Tool Server Manager.
outside == <<gateway, sandbox, preprocessor, agentlib, creating, discovery, loop, repl>>

vars == <<agents, main_agent_id, tool_call_id_counter, streaming, system_prompt,
          tool_to_server_map, servers, mcp_config, connection, pc, cur, hlen, response,
          tool_calls, idx, results, call_results_by_id, invoked, outside>>

kernelLocals == <<response, tool_calls, idx, results, call_results_by_id, invoked>>

\* What no step of the Kernel assigns.
config == <<streaming, tool_to_server_map, servers, mcp_config, connection, outside>>

\* The state of the Tool Server Manager.
manager == <<tool_to_server_map, servers, mcp_config, connection>>

\* What no step of the Tool Server Manager assigns.
kernel == <<agents, main_agent_id, tool_call_id_counter, streaming, system_prompt,
            pc, cur, hlen, kernelLocals>>

\* ------------------------------------------------------------------ Init
Init ==
    /\ agents = <<>>
    /\ main_agent_id = None
    /\ tool_call_id_counter = 0
    /\ streaming \in BOOLEAN
    /\ system_prompt = "sys_v1"
    /\ mcp_config = [s \in ServerNames |-> IF s = "demo" THEN "tools" ELSE "absent"]
    /\ tool_to_server_map = startup(mcp_config).map
    /\ servers = startup(mcp_config).servers
    /\ comm_lock = None
    /\ request_id_counter = HandshakeRequests(mcp_config["demo"])
    /\ stdin = <<>>
    /\ stdout_queue = <<>>
    /\ old_queue = <<>>
    /\ tpc = [t \in Threads |-> "idle"]
    /\ treq = [t \in Threads |-> 0]
    /\ tret = [t \in Threads |-> NoLine]
    /\ gateway = [request |-> NoRequest, reply |-> NoReply]
    /\ sandbox = Execution("idle", FALSE, None, FALSE, "no", None)
    /\ preprocessor = [module |-> None, code |-> <<>>, outputs |-> <<>>]
    /\ agentlib = [call |-> NoToolCall, done |-> NotExecuted]
    /\ creating = [t \in Threads |-> [at |-> "idle", agent |-> None]]
    /\ discovery = [listing |-> <<>>, requests |-> <<>>, full_list |-> <<>>]
    /\ loop = [agents |-> <<[status |-> "READY"]>>, cur |-> 0]
    /\ repl = [last_tool_code |-> None, consecutive_tool_calls |-> 0, at |-> "prompt", log |-> <<>>]
    /\ pc = "idle"
    /\ cur = 0
    /\ hlen = 0
    /\ response = "none"
    /\ tool_calls = <<>>
    /\ idx = 0
    /\ results = <<>>
    /\ call_results_by_id = EmptyMap
    /\ invoked = <<>>

\* ----------------------------------------------------------- Orchestrator
\* The orchestrator seeds the root agent.
SeedRoot ==
    /\ pc = "idle"
    /\ agents = <<>>
    /\ LET c == create_agent(agents, main_agent_id, "Main", "", system_prompt, None)
       IN /\ agents' = c.store
          /\ main_agent_id' = c.mid
    /\ UNCHANGED <<tool_call_id_counter, system_prompt, pc, cur, hlen, kernelLocals, config>>

MainIndex == CHOOSE i \in 1..Len(agents) : agents[i].is_main

\* The REPL reads a line when no agent is READY: the text is appended to the
\* root's history and the root becomes READY.
UserInput ==
    /\ pc = "idle"
    /\ agents # <<>>
    /\ get_next_ready_agent(agents) = 0
    /\ agents[MainIndex].status = "DONE"
    /\ Len(agents[MainIndex].history) + 1 < MaxHist
    /\ agents' = SetStatus(AppendHistory(agents, MainIndex, <<Msg("user", "user_input")>>),
                           MainIndex, "READY")
    /\ UNCHANGED <<main_agent_id, tool_call_id_counter, system_prompt, pc, cur, hlen,
                   kernelLocals, config>>

\* No agent is READY and the root is WAITING: the orchestrator flips the root
\* back to READY.
WakeRoot ==
    /\ pc = "idle"
    /\ agents # <<>>
    /\ get_next_ready_agent(agents) = 0
    /\ agents[MainIndex].status = "WAITING"
    /\ agents' = SetStatus(agents, MainIndex, "READY")
    /\ UNCHANGED <<main_agent_id, tool_call_id_counter, system_prompt, pc, cur, hlen,
                   kernelLocals, config>>

\* /reload at the prompt: the system prompt generator returns a new text.
ReloadPrompts ==
    /\ pc = "idle"
    /\ agents # <<>>
    /\ get_next_ready_agent(agents) = 0
    /\ system_prompt' \in {"sys_v1", "sys_v2"} \ {system_prompt}
    /\ UNCHANGED <<agents, main_agent_id, tool_call_id_counter, pc, cur, hlen,
                   kernelLocals, config>>

\* ---------------------------------------------------------------- Kernel
\* Histories are kept within MaxHist by bounding what comes from outside: the
\* user types and the LLM answers with a tool block only while a final answer
\* still fits afterwards, so an agent that is READY can always take its turn.
\* run_turn, lines 46-50: the main loop picks the next READY agent.
RefreshSystem(history, sysprompt) ==
    IF history # <<>> /\ history[1].role = "system"
    THEN [history EXCEPT ![1].content = sysprompt]
    ELSE history

StartTurn ==
    /\ pc = "idle"
    /\ LET a == get_next_ready_agent(agents)
       IN /\ a # 0
          /\ Len(agents[a].history) < MaxHist
          /\ agents' = [agents EXCEPT ![a].status = "RUNNING",
                                      ![a].history = RefreshSystem(@, system_prompt)]
          /\ cur' = a
          /\ hlen' = Len(agents[a].history)
    /\ pc' = "llm"
    /\ UNCHANGED <<main_agent_id, tool_call_id_counter, system_prompt, kernelLocals, config>>

Streams == streaming /\ agents[cur].is_main

\* run_turn returns: the main thread is back in the loop of the orchestrator.
Return(store) ==
    /\ agents' = store
    /\ pc' = "idle"
    /\ cur' = 0
    /\ hlen' = 0
    /\ tool_calls' = <<>>
    /\ idx' = 0
    /\ results' = <<>>
    /\ call_results_by_id' = EmptyMap
    /\ invoked' = <<>>
    /\ UNCHANGED <<main_agent_id, tool_call_id_counter, system_prompt, config>>

\* An exception leaves run_turn (how = "raised") or sys.exit(1) is called
\* (how = "exited"): main() logs it and shuts the process down.
Leave(how) ==
    /\ pc' = how
    /\ UNCHANGED <<agents, main_agent_id, system_prompt, cur, hlen, tool_calls, idx,
                   results, call_results_by_id, invoked, config>>

\* The partial response appended before the turn ends.
InterruptedKeepsPartial(store, i) ==
    SetStatus(AppendHistory(store, i, <<Msg("assistant", "partial answer")>>), i, "DONE")

\* run_turn, lines 53-55: _call_llm reported an interrupt.
Interrupted(store, i) == SetStatus(store, i, "DONE")

\* KeyboardInterrupt while _call_llm_stream reads the response.
LLMInterruptedStreaming ==
    /\ pc = "llm"
    /\ Streams
    /\ response' = "interrupted"
    /\ Return(Interrupted(agents, cur))

\* KeyboardInterrupt while _call_llm_non_stream waits: nothing catches it.
LLMInterruptedBlocking ==
    /\ pc = "llm"
    /\ ~Streams
    /\ Leave("raised")
    /\ UNCHANGED <<tool_call_id_counter, response>>

\* requests.RequestException in _call_llm_stream: sys.exit(1).
LLMTransportErrorStreaming ==
    /\ pc = "llm"
    /\ Streams
    /\ Leave("exited")
    /\ UNCHANGED <<tool_call_id_counter, response>>

TransportErrorText == "Error: Could not contact LLM."

\* The final answer appended, the agent left READY.
FinalAnswerStaysReady(text) ==
    Return(SetStatus(AppendHistory(agents, cur, <<Msg("assistant", text)>>), cur, "READY"))

\* run_turn, lines 59-64, for a response without tool block. The response is
\* the model's text or, in _call_llm_non_stream, the text of the transport error.
FinalAnswer(text) ==
    Return(SetStatus(AppendHistory(agents, cur, <<Msg("assistant", text)>>), cur, "DONE"))

LLMTransportErrorBlocking ==
    /\ pc = "llm"
    /\ ~Streams
    /\ response' = "transport_error"
    /\ FinalAnswer(TransportErrorText)

LLMFinalAnswer ==
    /\ pc = "llm"
    /\ response' = "text"
    /\ FinalAnswer("final answer")

\* The response holds a tool block whose interior is empty or white space:
\* _extract_tool_content returns "", which "if not tool_content" takes for
\* no tool block; the response is appended as it came.
LLMEmptyToolBlock ==
    /\ pc = "llm"
    /\ response' = "empty_block"
    /\ FinalAnswer("<tool> </tool>")

ToolBlockMessage == Msg("assistant", "<tool>...</tool>")

\* The parser error is str(e) of what json.loads or the isinstance test raised.
ParseErrorMessage(kind) ==
    Msg("user", "TOOL_EXECUTION_RESULT: Error: Invalid tool format. Parser error: "
                \o (IF kind = "bad_json" THEN "Expecting value"
                                         ELSE "Tool content is not a JSON list."))

\* run_turn, lines 73-78: the except clause for the tool content.
ParseError(store, i, kind) ==
    SetStatus(AppendHistory(store, i, <<ParseErrorMessage(kind)>>), i, "READY")

\* run_turn, lines 66-78: the interior of the tool block is not JSON
\* ("bad_json") or is JSON but no list ("not_list").
LLMBadToolBlock ==
    /\ pc = "llm"
    /\ Len(agents[cur].history) + 2 < MaxHist
    /\ \E kind \in {"bad_json", "not_list"} :
         /\ response' = kind
         /\ Return(ParseError(AppendHistory(agents, cur, <<ToolBlockMessage>>), cur, kind))

\* run_turn, lines 66-70 and 80: the tool block is a JSON list, one of batches.
LLMToolBlockFrom(batches) ==
    /\ pc = "llm"
    /\ Len(agents[cur].history) + 2 < MaxHist
    /\ \E batch \in batches :
         /\ Len(agents) + Cardinality({i \in 1..Len(batch) :
                                          batch[i].tool_name = "spawn_agent"}) <= MaxAgents
         /\ tool_call_id_counter + Len(batch) <= MaxCounter
         /\ tool_calls' = batch
    /\ agents' = AppendHistory(agents, cur, <<ToolBlockMessage>>)
    /\ response' = "list"
    /\ pc' = "batch"
    /\ idx' = 1
    /\ results' = <<>>
    /\ call_results_by_id' = EmptyMap
    /\ invoked' = <<>>
    /\ UNCHANGED <<main_agent_id, tool_call_id_counter, system_prompt, cur, hlen, config>>

LLMToolBlock == LLMToolBlockFrom(Batches)

\* The same step with the tool block drawn from the spawning calls.
LLMSpawnBlock == LLMToolBlockFrom(SpawnBatches)

\* str(e) of the ValueError of _resolve_argument_references.
InvalidReferenceMessage(ref) == "Invalid reference: Tool result for '" \o ref \o "' not found."

\* call.get("call_id", self._get_next_tool_call_id()): the default is
\* evaluated for every call, so the counter moves whether or not it is used.
\* _get_next_tool_call_id returns "call_" and the counter value it has just set.
CallId(call, counter) ==
    IF call.call_id # None THEN call.call_id ELSE "call_" \o ToString(counter)

\* The record put in front of the list.
RecordInFront(id, result, store, mid, inv) ==
    /\ results' = <<[call_id |-> id, result |-> result]>> \o results
    /\ call_results_by_id' = Put(call_results_by_id, id, result)
    /\ idx' = idx + 1
    /\ agents' = store
    /\ main_agent_id' = mid
    /\ invoked' = inv
    /\ UNCHANGED <<system_prompt, pc, cur, hlen, response, tool_calls, config>>

\* results.append(...); call_results_by_id[tool_call_id] = result; next call.
Record(id, result, store, mid, inv) ==
    /\ results' = Append(results, [call_id |-> id, result |-> result])
    /\ call_results_by_id' = Put(call_results_by_id, id, result)
    /\ idx' = idx + 1
    /\ agents' = store
    /\ main_agent_id' = mid
    /\ invoked' = inv
    /\ UNCHANGED <<system_prompt, pc, cur, hlen, response, tool_calls, config>>

\* What dispatch_tool_call can give for the call now, the servers being as
\* they are.
OutcomesFor(tool_name) ==
    IF tool_name \notin all_tool_impls /\ tool_name \in DOMAIN tool_to_server_map
    THEN {dispatch_tool_call(tool_name, tool_to_server_map, servers, reply) :
            reply \in SendRequestOutcomes(ProcessOf(tool_name, tool_to_server_map, servers))}
    ELSE {"none"}

\* One iteration of the loop of _execute_tool_calls (lines 143-205).
ExecCall ==
    /\ pc = "batch"
    /\ idx <= Len(tool_calls)
    /\ LET call == tool_calls[idx]
           counter == tool_call_id_counter + 1
           id == CallId(call, counter)
       IN IF call.shape # "object"
          THEN \* call.get: AttributeError
               Leave("raised") /\ UNCHANGED <<tool_call_id_counter, response>>
          ELSE /\ tool_call_id_counter' = counter
               /\ IF ~call.arguments.isObj
                  THEN \* args.items(): AttributeError, not a ValueError
                       Leave("raised") /\ UNCHANGED response
                  ELSE LET res == resolve_argument_references(call.arguments.vals,
                                                              call_results_by_id)
                       IN IF ~res.ok
                          THEN Record(id, Failure(InvalidReferenceMessage(res.ref)),
                                      agents, main_agent_id, invoked)
                          ELSE IF call.tool_name = "wait_for_agents"
                          THEN Record(id,
                                      Success(Scalar(Leaf("str",
                                         "Agent is now waiting for sub-agents to complete."))),
                                      SetStatus(agents, cur, "WAITING"), main_agent_id, invoked)
                          ELSE IF confirm_action(FALSE)
                          THEN \E outcome \in OutcomesFor(call.tool_name) :
                                 LET d == Dispatch(call.tool_name, res.vals, agents,
                                                   main_agent_id, system_prompt,
                                                   tool_to_server_map, outcome, idx)
                                 IN Record(id, d.result, d.store, d.mid,
                                           IF d.called
                                           THEN Append(invoked,
                                                  [index |-> idx, tool_name |-> call.tool_name,
                                                   args |-> res.vals,
                                                   process |-> ProcessOf(call.tool_name,
                                                      tool_to_server_map, servers)])
                                           ELSE invoked)
                          ELSE Record(id, Failure("Tool execution was declined by the user."),
                                      agents, main_agent_id, invoked)

\* The final assignment of run_turn left out.
StatusKept(status) == status

\* READY assigned without the test for WAITING.
StatusAlwaysReady(status) == "READY"

\* run_turn, lines 85-86.
StatusAfterBatch(status) == IF status # "WAITING" THEN "READY" ELSE status

\* run_turn, lines 80-86: the loop is over, the feedback message is appended.
FinishTurn ==
    /\ pc = "batch"
    /\ idx > Len(tool_calls)
    /\ UNCHANGED response
    /\ Return(SetStatus(
         AppendHistory(agents, cur, <<Msg("user", "TOOL_EXECUTION_RESULT: json")>>),
         cur, StatusAfterBatch(agents[cur].status)))

\* A child process dies (or is killed) while the Kernel runs. Nothing but a
\* dispatch to the server reads its state, so the death is placed just before
\* a dispatch to it: any earlier death is seen by the Kernel in the same way.
ServerDies ==
    /\ pc = "batch"
    /\ idx <= Len(tool_calls)
    /\ tool_calls[idx].shape = "object"
    /\ \E s \in DOMAIN servers :
         /\ servers[s] = "running"
         /\ tool_calls[idx].tool_name \in DOMAIN tool_to_server_map
         /\ tool_to_server_map[tool_calls[idx].tool_name] = s
         /\ servers' = [servers EXCEPT ![s] = "dead"]
    /\ UNCHANGED <<agents, main_agent_id, tool_call_id_counter, streaming, system_prompt,
                   tool_to_server_map, mcp_config, connection, pc, cur, hlen, kernelLocals,
                   outside>>

\* ------------------------------------------------------------------ Next
Next ==
    \/ SeedRoot
    \/ UserInput
    \/ WakeRoot
    \/ ReloadPrompts
    \/ StartTurn
    \/ LLMInterruptedStreaming
    \/ LLMInterruptedBlocking
    \/ LLMTransportErrorStreaming
    \/ LLMTransportErrorBlocking
    \/ LLMFinalAnswer
    \/ LLMEmptyToolBlock
    \/ LLMBadToolBlock
    \/ LLMToolBlock
    \/ ExecCall
    \/ FinishTurn
    \/ ServerDies

Spec == Init /\ [][Next]_vars

\* The main thread keeps running: whenever it can pick a READY agent, wake the
\* root or take the next step of a turn, it does. Input of the user is not
\* guaranteed.
FairSpec ==
    Spec /\ WF_vars(WakeRoot \/ StartTurn \/ LLMFinalAnswer \/ ExecCall \/ FinishTurn)

\* The Kernel with the tool blocks of the LLM drawn from the spawning calls.
SpawnNext ==
    \/ SeedRoot
    \/ UserInput
    \/ WakeRoot
    \/ ReloadPrompts
    \/ StartTurn
    \/ LLMInterruptedStreaming
    \/ LLMInterruptedBlocking
    \/ LLMTransportErrorStreaming
    \/ LLMTransportErrorBlocking
    \/ LLMFinalAnswer
    \/ LLMEmptyToolBlock
    \/ LLMBadToolBlock
    \/ LLMSpawnBlock
    \/ ExecCall
    \/ FinishTurn
    \/ ServerDies

SpawnSpec == Init /\ [][SpawnNext]_vars

\* ------------------------------------- Tool Server Manager: one connection
\* The threads of the process call dispatch_tool_call concurrently (the main
\* thread from the Kernel, a worker of the gateway's ThreadingHTTPServer from
\* do_POST); the child of server "demo" writes lines to its stdout; reload
\* replaces the servers. The steps below are those of mcp_manager.py.

\* The lock is released when the with block of send_request is left.
Release(t) == IF comm_lock = t THEN None ELSE comm_lock

\* dispatch_tool_call returns None without contacting a server: the name is
\* not in the map, or the process of its server was never started.
DispatchNone(t) ==
    /\ tpc[t] = "idle"
    /\ \E tool_name \in (UNION {Catalog(s) : s \in ServerNames}) :
         /\ ProcessOf(tool_name, tool_to_server_map, servers) = "none"
         /\ dispatch_tool_call(tool_name, tool_to_server_map, servers, "timeout") = "none"
    /\ tpc' = [tpc EXCEPT ![t] = "returned"]
    /\ treq' = [treq EXCEPT ![t] = 0]
    /\ tret' = [tret EXCEPT ![t] = NoLine]
    /\ UNCHANGED <<kernel, outside, tool_to_server_map, servers, mcp_config, comm_lock,
                   request_id_counter, stdin, stdout_queue>>
    /\ UNCHANGED old_queue

\* dispatch_tool_call -> send_request for a tool of "demo": take the lock, draw
\* the next id, _send_message. The write reaches the child only when it runs
\* (a dead child's pipe raises, which _send_message catches).
SendRequest(t) ==
    /\ tpc[t] = "idle"
    /\ \E tool_name \in DOMAIN tool_to_server_map :
         /\ tool_to_server_map[tool_name] = "demo"
         /\ ProcessOf(tool_name, tool_to_server_map, servers) # "none"
    /\ CanAcquire(comm_lock)
    /\ request_id_counter < HandshakeRequests(mcp_config["demo"]) + MaxRequests
    /\ Len(stdin) < MaxRequests
    /\ comm_lock' = t
    /\ request_id_counter' = request_id_counter + 1
    /\ stdin' = IF servers["demo"] = "running"
                THEN Append(stdin, request_id_counter')
                ELSE stdin
    /\ tpc' = [tpc EXCEPT ![t] = "reading"]
    /\ treq' = [treq EXCEPT ![t] = request_id_counter']
    /\ UNCHANGED <<kernel, outside, tool_to_server_map, servers, mcp_config, stdout_queue, tret>>
    /\ UNCHANGED old_queue

\* send_notification: take the lock, _send_message, release.
SendNotification(t) ==
    /\ tpc[t] = "idle"
    /\ "demo" \in DOMAIN servers
    /\ servers["demo"] = "running"
    /\ CanAcquire(comm_lock)
    /\ Len(stdin) < MaxRequests
    /\ stdin' = Append(stdin, 0)
    /\ UNCHANGED <<kernel, outside, tool_to_server_map, servers, mcp_config, comm_lock,
                   request_id_counter, stdout_queue, tpc, treq, tret>>
    /\ UNCHANGED old_queue

\* The queue a reading thread takes its lines from: that of the connection
\* object it called send_request on.
QueueOf(t) == IF tpc[t] = "reading_old" THEN old_queue ELSE stdout_queue

\* queue.get(): the head of the thread's queue is taken.
TakeLine(t) ==
    IF tpc[t] = "reading_old"
    THEN old_queue' = Tail(old_queue) /\ UNCHANGED stdout_queue
    ELSE stdout_queue' = Tail(stdout_queue) /\ UNCHANGED old_queue

\* The last line a thread takes before it leaves send_request; a replaced
\* connection object goes with its last reader.
TakeLastLine(t) ==
    IF tpc[t] = "reading_old"
    THEN old_queue' = <<>> /\ UNCHANGED stdout_queue
    ELSE stdout_queue' = Tail(stdout_queue) /\ UNCHANGED old_queue

Reading(t) == tpc[t] \in {"reading", "reading_old"}

\* _read_response takes a line that is not the awaited response: an empty
\* line, text that is no JSON (warning), a JSON object with another id or
\* without id. The loop goes on.
ReadDiscard(t) ==
    /\ Reading(t)
    /\ QueueOf(t) # <<>>
    /\ Head(QueueOf(t)).kind # "value"
    /\ ~Matches(Head(QueueOf(t)), treq[t])
    /\ TakeLine(t)
    /\ UNCHANGED <<kernel, outside, tool_to_server_map, servers, mcp_config, comm_lock,
                   request_id_counter, stdin, tpc, treq, tret>>

\* _read_response takes the JSON object whose id is the awaited one and
\* returns it; send_request returns it and releases the lock.
ReadMatch(t) ==
    /\ Reading(t)
    /\ QueueOf(t) # <<>>
    /\ Head(QueueOf(t)).kind # "value"
    /\ Matches(Head(QueueOf(t)), treq[t])
    /\ TakeLastLine(t)
    /\ tret' = [tret EXCEPT ![t] = Head(QueueOf(t))]
    /\ tpc' = [tpc EXCEPT ![t] = "returned"]
    /\ comm_lock' = Release(t)
    /\ UNCHANGED <<kernel, outside, tool_to_server_map, servers, mcp_config, request_id_counter,
                   stdin, treq>>

\* _read_response takes a line that json.loads accepts but that is no object
\* (null, a number, a string, an array): response.get raises AttributeError,
\* which neither except clause of the loop catches. The exception leaves
\* send_request (the with block releases the lock).
ReadRaise(t) ==
    /\ Reading(t)
    /\ QueueOf(t) # <<>>
    /\ Head(QueueOf(t)).kind = "value"
    /\ TakeLastLine(t)
    /\ tpc' = [tpc EXCEPT ![t] = "raised"]
    /\ comm_lock' = Release(t)
    /\ UNCHANGED <<kernel, outside, tool_to_server_map, servers, mcp_config, request_id_counter,
                   stdin, treq, tret>>

\* REQUEST_TIMEOUT passes (the queue stays empty, or the loop runs out of
\* time): _read_response returns None.
ReadTimeout(t) ==
    /\ Reading(t)
    /\ tret' = [tret EXCEPT ![t] = NoLine]
    /\ tpc' = [tpc EXCEPT ![t] = "returned"]
    /\ comm_lock' = Release(t)
    /\ old_queue' = IF tpc[t] = "reading_old" THEN <<>> ELSE old_queue
    /\ UNCHANGED <<kernel, outside, tool_to_server_map, servers, mcp_config, request_id_counter,
                   stdin, stdout_queue, treq>>

\* The caller of dispatch_tool_call goes on with what it got.
CallerContinues(t) ==
    /\ tpc[t] \in {"returned", "raised"}
    /\ tpc' = [tpc EXCEPT ![t] = "idle"]
    /\ treq' = [treq EXCEPT ![t] = 0]
    /\ tret' = [tret EXCEPT ![t] = NoLine]
    /\ UNCHANGED <<kernel, outside, tool_to_server_map, servers, mcp_config, comm_lock,
                   request_id_counter, stdin, stdout_queue>>
    /\ UNCHANGED old_queue

\* The running child answers a request it has read, at any time after it and
\* any number of times; _enqueue_stdout puts the line on the queue.
ServerAnswers ==
    /\ "demo" \in DOMAIN servers
    /\ servers["demo"] = "running"
    /\ Len(stdout_queue) < MaxQueue
    /\ \E n \in 1..Len(stdin) :
         /\ stdin[n] # 0
         /\ stdout_queue' = Append(stdout_queue, Line("response", stdin[n]))
    /\ UNCHANGED <<kernel, outside, tool_to_server_map, servers, mcp_config, comm_lock,
                   request_id_counter, stdin, tpc, treq, tret>>
    /\ UNCHANGED old_queue

\* The running child writes a line that answers nothing.
ServerChatters ==
    /\ "demo" \in DOMAIN servers
    /\ servers["demo"] = "running"
    /\ Len(stdout_queue) < MaxQueue
    /\ \E line \in {Line("notification", 0), Line("value", 0), Line("text", 0),
                     Line("blank", 0)} :
         stdout_queue' = Append(stdout_queue, line)
    /\ UNCHANGED <<kernel, outside, tool_to_server_map, servers, mcp_config, comm_lock,
                   request_id_counter, stdin, tpc, treq, tret>>
    /\ UNCHANGED old_queue

\* The child of "demo" exits; server.process still names it.
ChildExits ==
    /\ "demo" \in DOMAIN servers
    /\ servers["demo"] = "running"
    /\ servers' = [servers EXCEPT !["demo"] = "dead"]
    /\ UNCHANGED <<kernel, outside, tool_to_server_map, mcp_config, connection>>

\* MCPManager.reload(new_config), as /reload runs it on the main thread:
\* shutdown() stops every child, _reinit builds new connection objects and
\* empties the map, startup() brings the servers up. Nothing in it takes
\* _comm_lock or waits for a caller: a worker that is inside send_request
\* stays there, on the connection object it called, whose child is gone.
Reload ==
    /\ tpc["main"] = "idle"
    /\ \E boots \in Configs :
         /\ mcp_config' = boots
         /\ servers' = startup(boots).servers
         /\ tool_to_server_map' = StartupFrom(Reinit(tool_to_server_map), boots, Len(ServerOrder))
         /\ request_id_counter' = HandshakeRequests(boots["demo"])
    /\ comm_lock' = None
    /\ stdin' = <<>>
    /\ stdout_queue' = <<>>
    /\ old_queue' = IF \E t \in Threads : tpc[t] = "reading" THEN stdout_queue ELSE old_queue
    /\ tpc' = [t \in Threads |-> IF tpc[t] = "reading" THEN "reading_old" ELSE tpc[t]]
    /\ UNCHANGED <<kernel, outside, treq, tret>>

McpNext ==
    \/ \E t \in Threads : DispatchNone(t)
    \/ \E t \in Threads : SendRequest(t)
    \/ \E t \in Threads : SendNotification(t)
    \/ \E t \in Threads : ReadDiscard(t)
    \/ \E t \in Threads : ReadMatch(t)
    \/ \E t \in Threads : ReadRaise(t)
    \/ \E t \in Threads : ReadTimeout(t)
    \/ \E t \in Threads : CallerContinues(t)
    \/ ServerAnswers
    \/ ServerChatters
    \/ ChildExits
    \/ Reload

\* The manager reads nothing of the Kernel: its steps are taken from the
\* initial state of a streaming Kernel.
McpInit == Init /\ streaming

McpSpec == McpInit /\ [][McpNext]_vars

\* -------------------------------------------------------------- gateway
\* A client posts a request.
GatewayReceives ==
    /\ gateway.reply # NoReply \/ gateway.request = NoRequest
    /\ \E req \in Requests : gateway' = [request |-> req, reply |-> NoReply]
    /\ UNCHANGED <<kernel, manager, sandbox, preprocessor, agentlib, creating, discovery, loop, repl>>

\* do_POST handles it.
GatewayAnswers ==
    /\ gateway.request # NoRequest
    /\ gateway.reply = NoReply
    /\ LET tool_name == gateway.request.tool_name
           \* how dispatch_tool_call can end for the tool of the request
           outcomes ==
               IF tool_name \in DOMAIN tool_to_server_map
               THEN {dispatch_tool_call(tool_name, tool_to_server_map, servers, reply) :
                       reply \in SendRequestOutcomes(
                                    ProcessOf(tool_name, tool_to_server_map, servers))}
               ELSE {"none"}
       IN  \E outcome \in outcomes :
             gateway' = [gateway EXCEPT
                           !.reply = do_POST(gateway.request, tool_to_server_map, outcome)]
    /\ UNCHANGED <<kernel, manager, sandbox, preprocessor, agentlib, creating, discovery, loop, repl>>

\* --------------------------------------------------------------- sandbox
\* The with block is left, by return or by an exception.
LeaveWith(how, error) ==
    sandbox' = [sandbox EXCEPT !.pc = "left", !.dir = TemporaryDirectoryExit(sandbox.dir),
                               !.left = how, !.error = error]

\* The function is entered: tempfile.TemporaryDirectory makes script_dir.
ExecEnters ==
    /\ sandbox.pc \in {"idle", "left"}
    /\ \E entry \in {"execute_python_code", "execute_python_tool"}, interactive \in BOOLEAN :
         \* chatty's execute_python_tool has no interactive mode
         /\ interactive => entry = "execute_python_code"
         /\ sandbox' = Execution("made", TRUE, entry, interactive, "no", None)
    /\ UNCHANGED <<kernel, manager, gateway, preprocessor, agentlib, creating, discovery, loop, repl>>

\* The tools file and main.py are written, or open/write raises.
ExecWritesFiles ==
    /\ sandbox.pc = "made"
    /\ \/ sandbox' = [sandbox EXCEPT !.pc = "written"]
       \/ LeaveWith("raised", "OSError")
    /\ UNCHANGED <<kernel, manager, gateway, preprocessor, agentlib, creating, discovery, loop, repl>>

\* subprocess.run starts uv, or cannot (uv is not installed).
ExecLaunches ==
    /\ sandbox.pc = "written"
    /\ \/ sandbox' = [sandbox EXCEPT !.pc = "running"]
       \/ LeaveWith("raised", "FileNotFoundError")
    /\ UNCHANGED <<kernel, manager, gateway, preprocessor, agentlib, creating, discovery, loop, repl>>

\* uv run ends with exit code zero or not, or, captured, the 120 s pass.
ExecEnds ==
    /\ sandbox.pc = "running"
    /\ \/ LeaveWith("returned", None)
       \/ LeaveWith("returned", "Script exited with code")
       \/ ~sandbox.interactive /\ LeaveWith("raised", "TimeoutExpired")
    /\ UNCHANGED <<kernel, manager, gateway, preprocessor, agentlib, creating, discovery, loop, repl>>

\* The sandbox next to the gateway its scripts call.
SandboxSpec ==
    McpInit /\ [][ExecEnters
                   \/ ExecWritesFiles
                   \/ ExecLaunches
                   \/ ExecEnds
                   \/ GatewayReceives
                   \/ GatewayAnswers]_vars

\* --------------------------------------------------------- pre-processor
\* Tool code arrives.
PreprocessorReceives ==
    /\ preprocessor.code = <<>>
    /\ \E code \in Codes, module \in {"code_executor", "code_processor"} :
         preprocessor' = [module |-> module, code |-> code, outputs |-> <<>>]
    /\ UNCHANGED <<kernel, manager, gateway, sandbox, agentlib, creating, discovery, loop, repl>>

\* process_tool_code is applied: to the code, then to its own output.
PreprocessorRuns ==
    /\ preprocessor.code # <<>>
    /\ Len(preprocessor.outputs) < 2
    /\ preprocessor' =
         [preprocessor EXCEPT !.outputs =
            Append(@, process_tool_code(IF @ = <<>> THEN preprocessor.code ELSE @[1],
                                        preprocessor.module))]
    /\ UNCHANGED <<kernel, manager, gateway, sandbox, agentlib, creating, discovery, loop, repl>>

PreprocessorSpec ==
    McpInit /\ [][PreprocessorReceives
                   \/ PreprocessorRuns]_vars

\* -------------------------------------------------------------- agentlib
\* run finds a tool call in the response of the model.
AgentlibReceives ==
    /\ agentlib.call = NoToolCall \/ agentlib.done # NotExecuted
    /\ \E call \in ToolCallsGiven : agentlib' = [call |-> call, done |-> NotExecuted]
    /\ UNCHANGED <<kernel, manager, gateway, sandbox, preprocessor, creating, discovery, loop, repl>>

\* execute_tool handles it.
AgentlibExecutes ==
    /\ agentlib.call # NoToolCall
    /\ agentlib.done = NotExecuted
    /\ agentlib' = [agentlib EXCEPT !.done = execute_tool(agentlib.call)]
    /\ UNCHANGED <<kernel, manager, gateway, sandbox, preprocessor, creating, discovery, loop, repl>>

AgentlibSpec ==
    McpInit /\ [][AgentlibReceives
                   \/ AgentlibExecutes]_vars

\* ------------------------------------------------- concurrent create_agent
\* create_agent takes no lock: a thread that calls it reads _main_agent_id and
\* builds its agent (lines 37-53), stores it (line 55) and, for a main agent,
\* assigns _main_agent_id (lines 56-57); another thread can run between any two
\* of these. uuid4 gives every sub-agent an id of its own.
CreateBuilds(t) ==
    /\ creating[t].at = "idle"
    /\ \E role \in {"Coder", "Planner"}, initial_prompt \in {"", "task"} :
         LET is_main_agent == (main_agent_id = None)
             agent_id == IF is_main_agent THEN "main" ELSE "agent-" \o t
             history == <<Msg("system", system_prompt)>>
                        \o (IF initial_prompt # "" THEN <<Msg("user", initial_prompt)>>
                                                   ELSE <<>>)
         IN creating' = [creating EXCEPT ![t] =
                [at |-> "built",
                 agent |-> AgentContext(agent_id, role, history,
                                        IF is_main_agent THEN "DONE" ELSE "READY",
                                        None, is_main_agent)]]
    /\ UNCHANGED <<kernel, manager, gateway, sandbox, preprocessor, agentlib, discovery, loop, repl>>

\* self._agents[agent.id] = agent: a key the dict holds keeps its place and
\* takes the new value.
CreateStores(t) ==
    /\ creating[t].at = "built"
    /\ LET agent == creating[t].agent
       IN agents' = IF \E i \in 1..Len(agents) : agents[i].id = agent.id
                    THEN [i \in 1..Len(agents) |->
                            IF agents[i].id = agent.id THEN agent ELSE agents[i]]
                    ELSE Append(agents, agent)
    /\ creating' = [creating EXCEPT ![t].at = "stored"]
    /\ UNCHANGED <<main_agent_id, tool_call_id_counter, streaming, system_prompt,
                   pc, cur, hlen, kernelLocals, manager, gateway, sandbox,
                   preprocessor, agentlib, discovery, loop, repl>>

CreateReturns(t) ==
    /\ creating[t].at = "stored"
    /\ main_agent_id' = IF creating[t].agent.is_main THEN creating[t].agent.id
                        ELSE main_agent_id
    /\ creating' = [creating EXCEPT ![t].at = "returned"]
    /\ UNCHANGED <<agents, tool_call_id_counter, streaming, system_prompt,
                   pc, cur, hlen, kernelLocals, manager, gateway, sandbox,
                   preprocessor, agentlib, discovery, loop, repl>>

\* Two threads that each call create_agent once on the manager as constructed.
CreateSpec ==
    McpInit /\ [][\E t \in Threads : \/ CreateBuilds(t)
                                     \/ CreateStores(t)
                                     \/ CreateReturns(t)]_vars

\* ------------------------------------------------------ paginated discovery
\* _fetch_metadata of server "demo", which declares tools: the list is fetched
\* page by page and every name of it is recorded for the server.
Discover ==
    /\ discovery.requests = <<>>
    /\ \E listing \in Listings :
         LET got == fetch_paginated_list(listing, None, <<>>, <<>>)
             names == {got.full_list[i] : i \in 1..Len(got.full_list)}
         IN /\ discovery' = [listing |-> listing, requests |-> got.requests,
                             full_list |-> got.full_list]
            /\ tool_to_server_map' =
                 [n \in DOMAIN tool_to_server_map \cup names |->
                    IF n \in names THEN "demo" ELSE tool_to_server_map[n]]
    /\ UNCHANGED <<kernel, servers, mcp_config, connection, gateway, sandbox,
                   preprocessor, agentlib, creating, loop, repl>>

DiscoverySpec == McpInit /\ [][Discover]_vars

\* ---------------------------------------------------------------- main loop
\* The main loop seen by the statuses of the agents alone: it asks
\* get_next_ready_agent for an agent and runs one turn of it, again and again.
\* The loop starts with the root agent READY after the user's input.
MaxLoopAgents == 5

\* The loop picks the agent; run_turn sets it RUNNING.
LoopPicks ==
    /\ loop.cur = 0
    /\ get_next_ready_agent(loop.agents) # 0
    /\ loop' = [agents |-> [loop.agents EXCEPT
                              ![get_next_ready_agent(loop.agents)].status = "RUNNING"],
                cur |-> get_next_ready_agent(loop.agents)]
    /\ UNCHANGED <<kernel, manager, gateway, sandbox, preprocessor, agentlib, creating,
                   discovery, repl>>

\* run_turn returns: the agent is DONE (final answer, cancelled), READY (tool
\* results appended) or WAITING; a spawn_agent call of the turn has put a new
\* READY agent at the end of the store.
LoopTurnEnds ==
    /\ loop.cur # 0
    /\ \E status \in {"DONE", "READY", "WAITING"}, spawned \in BOOLEAN :
         /\ spawned => (status # "DONE" /\ Len(loop.agents) < MaxLoopAgents)
         /\ loop' = [agents |-> [loop.agents EXCEPT ![loop.cur].status = status]
                                \o (IF spawned THEN <<[status |-> "READY"]>> ELSE <<>>),
                     cur |-> 0]
    /\ UNCHANGED <<kernel, manager, gateway, sandbox, preprocessor, agentlib, creating,
                   discovery, repl>>

\* The loop never stops while an agent is READY, and every turn ends.
LoopSpec ==
    McpInit /\ [][LoopPicks \/ LoopTurnEnds]_vars
            /\ WF_vars(LoopPicks) /\ WF_vars(LoopTurnEnds)

\* ------------------------------------------------------ the REPL of chatty.py
\* run_conversation_loop on a context whose last_tool_code is unset and whose
\* consecutive_tool_calls is 0. log keeps, for every tool code the model
\* submitted, the code, what became of it and the role of the message that is
\* the last of the conversation when the step is over.
tool_interaction_limit == 2

MaxSubmissions == 4

\* The text of the last submission, taken for the count of every submission.
CountsAllSubmissions(uv_code, last, count) == count + 1

\* Lines 241-245: the count of consecutive identical submissions.
consecutive_tool_calls(uv_code, last, count) ==
    IF uv_code = last THEN count + 1 ELSE 1

\* The user enters a text that is no command: lines 221-223.
ReplUserInput ==
    /\ repl.at = "prompt"
    /\ repl' = [repl EXCEPT !.at = "turn"]
    /\ UNCHANGED <<kernel, manager, gateway, sandbox, preprocessor, agentlib, creating,
                   discovery, loop>>

\* Lines 225-233: the response holds no tool code (it is appended as the final
\* answer) or the user interrupted it (nothing is appended); the turn is over.
ReplAnswers ==
    /\ repl.at = "turn"
    /\ repl' = [repl EXCEPT !.at = "prompt"]
    /\ UNCHANGED <<kernel, manager, gateway, sandbox, preprocessor, agentlib, creating,
                   discovery, loop>>

\* Lines 235-280: the response holds tool code. After the loop prevention the
\* code is run when the user confirms it ("executed": the turn goes on with
\* the feedback message), or the turn ends with one more response of the model:
\* after a refusal ("declined") or when the limit is exceeded ("aborted").
\* That last request can fail: prompt_llm_stream leaves by sys.exit ("exited").
ReplSubmits ==
    /\ repl.at = "turn"
    /\ Len(repl.log) < MaxSubmissions
    /\ \E uv_code \in {"A", "B"}, confirmed \in BOOLEAN, answered \in BOOLEAN :
         LET count == consecutive_tool_calls(uv_code, repl.last_tool_code,
                                             repl.consecutive_tool_calls)
             outcome == IF count <= tool_interaction_limit /\ confirmed THEN "executed"
                        ELSE IF ~answered THEN "exited"
                        ELSE IF count > tool_interaction_limit THEN "aborted"
                        ELSE "declined"
         IN repl' = [last_tool_code |-> uv_code,
                     consecutive_tool_calls |-> count,
                     at |-> IF outcome = "executed" THEN "turn"
                            ELSE IF outcome = "exited" THEN "exited" ELSE "prompt",
                     log |-> Append(repl.log,
                               [code |-> uv_code, outcome |-> outcome,
                                last |-> IF outcome \in {"executed", "exited"}
                                         THEN "user" ELSE "assistant"])]
    /\ UNCHANGED <<kernel, manager, gateway, sandbox, preprocessor, agentlib, creating,
                   discovery, loop>>

ReplSpec ==
    McpInit /\ [][ReplUserInput
                   \/ ReplAnswers
                   \/ ReplSubmits]_vars

\* The gateway next to the reloads of the manager and the exit of a child.
GatewaySpec ==
    McpInit /\ [][GatewayReceives
                   \/ GatewayAnswers
                   \/ Reload
                   \/ ChildExits]_vars

\* =================================================================== claims
IsToolResult(msg) ==
    /\ msg.role = "user"
    /\ \/ msg.content = "TOOL_EXECUTION_RESULT: json"
       \/ \E kind \in {"bad_json", "not_list"} : msg = ParseErrorMessage(kind)

\* A step in which run_turn returns to the main loop.
TurnReturns == pc \in {"llm", "batch"} /\ pc' = "idle"

\* The messages run_turn has appended to the history of its agent, in store.
Appended(store) == SubSeq(store[cur].history, hlen + 1, Len(store[cur].history))

\* (a) one final assistant message appended, status DONE
CaseFinal(store) ==
    /\ Len(Appended(store)) = 1
    /\ Appended(store)[1].role = "assistant"
    /\ Appended(store)[1] # ToolBlockMessage
    /\ store[cur].status = "DONE"

\* (b) tool block and TOOL_EXECUTION_RESULT appended, status READY or WAITING
CaseTool(store) ==
    /\ Len(Appended(store)) = 2
    /\ Appended(store)[1] = ToolBlockMessage
    /\ IsToolResult(Appended(store)[2])
    /\ store[cur].status \in {"READY", "WAITING"}

\* (c) streaming turn of the root cancelled: nothing appended, status DONE
CaseCancelled(store) ==
    /\ Streams
    /\ Appended(store) = <<>>
    /\ store[cur].status = "DONE"

ExactlyOne(S) == Cardinality({b \in S : b[2]}) = 1

\* C1 (as stated): after every return of run_turn exactly one of (a) a final
\* assistant message was appended and the status is DONE, (b) a tool block
\* and a TOOL_EXECUTION_RESULT were appended and the status is READY or
\* WAITING.
C1_FinalOrToolBatch ==
    [][TurnReturns =>
         ExactlyOne({<<"a", CaseFinal(agents')>>, <<"b", CaseTool(agents')>>})]_vars

\* C1 (amended): after every return of run_turn exactly one of (a), (b) and
\* (c) holds, (c) being the cancelled streaming turn of the root agent:
\* nothing appended and status DONE.
C1_FinalToolBatchOrCancelled ==
    [][TurnReturns =>
         ExactlyOne({<<"a", CaseFinal(agents')>>, <<"b", CaseTool(agents')>>,
                     <<"c", CaseCancelled(agents')>>})]_vars

LastMsg(a) == a.history[Len(a.history)]

\* C1 witness: turns of all three kinds have returned: the root is DONE after
\* a final answer that followed a tool batch, and a sub-agent is WAITING after
\* its tool batch.
C1_Witness ==
    /\ pc = "idle"
    /\ Len(agents) = 2
    /\ agents[1].status = "DONE"
    /\ Len(agents[1].history) = 5
    /\ LastMsg(agents[1]).role = "assistant"
    /\ LastMsg(agents[1]) # ToolBlockMessage
    /\ agents[2].status = "WAITING"
    /\ IsToolResult(LastMsg(agents[2]))

\* C2: every agent of the store has a non-empty history whose first message
\* has role "system".
C2_SystemFirst ==
    \A i \in 1..Len(agents) :
        /\ agents[i].history # <<>>
        /\ agents[i].history[1].role = "system"

\* C2 witness: two agents exist and both have been through a turn.
C2_Witness ==
    /\ Len(agents) = 2
    /\ \A i \in 1..2 : Len(agents[i].history) >= 3 /\ agents[i].history[1].role = "system"

Running == {i \in 1..Len(agents) : agents[i].status = "RUNNING"}

InBatch == pc \in {"batch", "raised"} /\ tool_calls # <<>>

InvokedIdx == {invoked[n].index : n \in 1..Len(invoked)}

IsWait(i) == tool_calls[i].shape = "object" /\ tool_calls[i].tool_name = "wait_for_agents"

\* C4 (as stated): processing of a batch stops at a wait_for_agents call: no
\* call at a greater index is dispatched to a tool implementation and no
\* result record of such a call appears.
C4_StopsAtWait ==
    InBatch =>
      \A i \in 1..Len(results) :
         (IsWait(i) /\ results[i].result.status = "success") =>
            /\ Len(results) <= i
            /\ \A k \in InvokedIdx : k <= i

\* A step in which run_turn returns after its tool batch was executed.
BatchReturns == pc = "batch" /\ pc' = "idle"

OthersDone(i) == \A j \in 1..Len(agents) : j # i => agents[j].status = "DONE"

WaitsWithChildrenDone(i) ==
    /\ i <= Len(agents)
    /\ agents[i].status = "WAITING"
    /\ pc = "idle"
    /\ OthersDone(i)

C6_WaitingLeadsToReady ==
    \A i \in 1..MaxAgents :
        WaitsWithChildrenDone(i) ~> (i <= Len(agents) /\ agents[i].status = "READY")

\* The argument values of call i as the LLM wrote them.
Orig(i) == tool_calls[i].arguments.vals

EarlierIds(i) == {results[j].call_id : j \in 1..(i - 1)}

\* v with its reference replaced by the value out.
Subst(v, out) == Value(v.path \o out.path, out.leaf)

\* C7: a value substituted for "$X" in call i is the output of a call j < i of
\* the same batch with call_id X; where no such call exists nothing is
\* substituted (the call is either not dispatched or gets the text as written).
C7_RefsSeeEarlierCalls ==
    InBatch =>
      \A n \in 1..Len(invoked) :
         LET i == invoked[n].index
         IN \A p \in 1..Len(Orig(i)) :
              \/ invoked[n].args[p] = Orig(i)[p]
              \/ /\ Orig(i)[p].leaf.k = "ref"
                 /\ \E j \in 1..(i - 1) :
                      /\ results[j].call_id = Orig(i)[p].leaf.v
                      /\ invoked[n].args[p] = Subst(Orig(i)[p], results[j].result.output)

\* C7 witness: a call was dispatched with the output of an earlier call of
\* the batch in place of its reference.
C7_Witness ==
    /\ pc = "batch"
    /\ \E n \in 1..Len(invoked) :
         /\ Orig(invoked[n].index)[1].leaf.k = "ref"
         /\ invoked[n].args[1].leaf.k = "num"
         /\ invoked[n].args[1] # Orig(invoked[n].index)[1]

\* The earlier calls of the batch with call_id x that succeeded.
EarlierSuccess(i, x) ==
    {j \in 1..(i - 1) : results[j].call_id = x /\ results[j].result.status = "success"}

\* C8 (as stated): a "$X" naming an earlier (here: successful) call is
\* replaced by that call's output wherever it stands in the arguments: top
\* level, nested object, list element, list in a list.
C8_EveryPositionResolved ==
    InBatch =>
      \A n \in 1..Len(invoked) :
         LET i == invoked[n].index
         IN \A p \in 1..Len(Orig(i)) :
              (Orig(i)[p].leaf.k = "ref" /\ EarlierSuccess(i, Orig(i)[p].leaf.v) # {}) =>
                 \E j \in EarlierSuccess(i, Orig(i)[p].leaf.v) :
                    invoked[n].args[p] = Subst(Orig(i)[p], results[j].result.output)

\* The call_ids without earlier result in the batch that call i refers to.
UnknownRefs(i) ==
    {Orig(i)[p].leaf.v : p \in {q \in 1..Len(Orig(i)) :
        Orig(i)[q].leaf.k = "ref" /\ Orig(i)[q].leaf.v \notin EarlierIds(i)}}

HasUnknownRef(i) == UnknownRefs(i) # {}

\* C9 (as stated): a call with a reference to a call_id that has no earlier
\* result gets the "Invalid reference" error envelope, its tool is not
\* invoked, and the batch goes on with the calls after it.
C9_UnknownRefIsError ==
    InBatch =>
      /\ \A i \in 1..Len(results) :
            (tool_calls[i].arguments.isObj /\ HasUnknownRef(i)) =>
               /\ results[i].result.status = "error"
               /\ \E x \in UnknownRefs(i) : results[i].result.error = InvalidReferenceMessage(x)
               /\ i \notin InvokedIdx
      /\ Len(results) = idx - 1

UnknownTool(name) ==
    name # None /\ name \notin all_tool_impls /\ name \notin DOMAIN tool_to_server_map

\* The call at index i is malformed: not an object, or arguments not an object.
Malformed(i) == tool_calls[i].shape # "object" \/ ~tool_calls[i].arguments.isObj

\* The implementation called for invoked[n] raised: multiply_numbers on a
\* value that is not a number.
Raised(n) ==
    /\ invoked[n].tool_name = "multiply_numbers"
    /\ ~(Len(invoked[n].args) = 1 /\ IsNumber(invoked[n].args[1]))

\* C10: a call whose tool raises, or whose tool name is in neither table, gets
\* an error envelope with a message; the loop goes on (one record per call
\* passed), and no exception leaves the batch because of it.
C10_ToolFailureIsEnvelope ==
    InBatch =>
      /\ \A i \in 1..Len(results) :
            (UnknownTool(tool_calls[i].tool_name) /\ ~HasUnknownRef(i)) =>
               /\ results[i].result.status = "error"
               /\ results[i].result.error # ""
               /\ i \notin InvokedIdx
      /\ \A n \in 1..Len(invoked) :
            Raised(n) =>
               /\ results[invoked[n].index].result.status = "error"
               /\ results[invoked[n].index].result.error # ""
      /\ Len(results) = idx - 1
      /\ pc = "raised" => Malformed(idx)

\* C10 witness: the first call named an unknown tool, the second call raised,
\* both have their error envelope and the loop has passed them.
C10_Witness ==
    /\ pc = "batch"
    /\ idx = 3
    /\ UnknownTool(tool_calls[1].tool_name)
    /\ results[1].result.status = "error"
    /\ \E n \in 1..Len(invoked) : Raised(n) /\ invoked[n].index = 2
    /\ results[2].result.status = "error"

\* ------------------------------------------------- claims on the LLM call
\* A step in which run_turn returns straight after the LLM call.
ReturnsAfterLLM == pc = "llm" /\ pc' = "idle"

\* No tool was executed by the step: no call id drawn, no agent created, no
\* implementation invoked.
NoToolExecuted ==
    /\ tool_call_id_counter' = tool_call_id_counter
    /\ Len(agents') = Len(agents)
    /\ invoked' = <<>>
    /\ servers' = servers

\* C11 (as stated): when the interior of the tool block is not valid JSON
\* (empty, or malformed) or is JSON whose root is no array, the turn invokes
\* no tool, appends the tool-block message and one TOOL_EXECUTION_RESULT that
\* describes the parse error, and leaves the agent READY.
C11_BadToolBlockIsParseError ==
    [][(ReturnsAfterLLM /\ response' \in {"empty_block", "bad_json", "not_list"}) =>
         /\ NoToolExecuted
         /\ \E kind \in {"bad_json", "not_list"} :
               Appended(agents') = <<ToolBlockMessage, ParseErrorMessage(kind)>>
         /\ agents'[cur].status = "READY"]_vars

\* C12 (as stated): once the tool block has parsed as a JSON array, whatever
\* its elements are, the batch runs to its end and run_turn returns with the
\* TOOL_EXECUTION_RESULT appended and the agent READY or WAITING: no step of
\* the batch ends in an exception that leaves run_turn.
C12_MalformedCallsRecover ==
    [][pc = "batch" =>
         /\ pc' \in {"batch", "idle"}
         /\ pc' = "idle" => CaseTool(agents')]_vars

\* C13: a start of a turn keeps the messages after the system message, and a
\* cancelled streaming call ends the turn with the agent DONE, the history as
\* it was, no tool executed and no other agent touched.
C13_CancelAppendsNothing ==
    [][/\ (pc = "idle" /\ pc' = "llm") =>
             /\ Len(agents'[cur'].history) = Len(agents[cur'].history)
             /\ \A k \in 2..Len(agents[cur'].history) :
                   agents'[cur'].history[k] = agents[cur'].history[k]
       /\ (ReturnsAfterLLM /\ response' = "interrupted") =>
             /\ agents'[cur].status = "DONE"
             /\ Len(agents'[cur].history) = hlen
             /\ agents'[cur].history = agents[cur].history
             /\ NoToolExecuted
             /\ \A i \in 1..Len(agents) : i # cur => agents'[i] = agents[i]]_vars

\* C13 witness: the root ran a tool batch, its next streaming call was
\* cancelled: it is DONE and the TOOL_EXECUTION_RESULT is still its last message.
C13_Witness ==
    /\ pc = "idle"
    /\ response = "interrupted"
    /\ agents[1].status = "DONE"
    /\ Len(agents[1].history) = 4
    /\ IsToolResult(LastMsg(agents[1]))

\* C14 (as stated): a transport failure of the LLM call, streaming or not,
\* ends the turn with one assistant message carrying the error appended and
\* the agent DONE.
C14_TransportErrorIsAssistantMessage ==
    [][(pc = "llm" /\ (pc' = "exited" \/ (pc' = "idle" /\ response' = "transport_error"))) =>
         /\ pc' = "idle"
         /\ Appended(agents') = <<Msg("assistant", TransportErrorText)>>
         /\ agents'[cur].status = "DONE"]_vars

\* ---------------------------------------------------- claims on the store
MainAgents(store) == {i \in 1..Len(store) : store[i].is_main}

\* C15: no step changes the id or the is_main flag of an agent; the store
\* grows by one agent at a time; after every creation exactly one agent has
\* is_main true, it is the first agent created and its id is "main"; the
\* first agent is created DONE, and no later agent is the root.
C15_OneMainAgent ==
    [][/\ Len(agents') >= Len(agents)
       /\ \A i \in 1..Len(agents) :
             agents'[i].id = agents[i].id /\ agents'[i].is_main = agents[i].is_main
       /\ Len(agents') > Len(agents) =>
             /\ Len(agents') = Len(agents) + 1
             /\ MainAgents(agents') = {1}
             /\ agents'[1].id = "main"
             /\ \A i \in 2..Len(agents') : agents'[i].id # "main"
             /\ Len(agents) = 0 => agents'[1].status = "DONE"]_vars

\* C15 witness: a second agent has been created after the root.
C15_Witness ==
    /\ Len(agents) = 2
    /\ MainAgents(agents) = {1}
    /\ agents[2].id # "main"
    /\ agents[2].status = "READY"

\* A step of the batch that records a success for a spawn_agent call.
SpawnSucceeds ==
    /\ pc = "batch"
    /\ idx' = idx + 1
    /\ tool_calls[idx].tool_name = "spawn_agent"
    /\ results'[idx].result.status = "success"

NewAgent(store) == store[Len(store)]

\* What the step must have done for a spawn with prompt history wanted.
SpawnedWith(wanted) ==
    /\ Len(agents') = Len(agents) + 1
    /\ \A i \in 1..Len(agents) : agents'[i] = agents[i]
    /\ NewAgent(agents').role = tool_calls[idx].arguments.vals[1].leaf.v
    /\ ~NewAgent(agents').is_main
    /\ NewAgent(agents').status = "READY"
    /\ NewAgent(agents').history = wanted
    /\ results'[idx].result.output = Scalar(Leaf("str", NewAgent(agents').id))
    /\ call_results_by_id'[results'[idx].call_id] = results'[idx].result
    /\ \A i \in 1..Len(agents) : agents[i].id # NewAgent(agents').id

\* C16 (as stated): a successful spawn_agent(role, prompt) adds exactly one
\* agent with that role, is_main false, status READY and history
\* [system, user = prompt]; the envelope's output is the new id and is filed
\* under the call's id for later references; no other agent, the caller
\* included, is changed.
C16_SpawnAddsReadyAgent ==
    [][SpawnSucceeds =>
         SpawnedWith(<<Msg("system", system_prompt),
                       Msg("user", tool_calls[idx].arguments.vals[2].leaf.v)>>)]_vars

\* C16 (amended): as stated, with the history being [system, user = prompt]
\* for a non-empty prompt and [system] alone for an empty prompt.
C16_SpawnAddsReadyAgentPrompted ==
    [][SpawnSucceeds =>
         SpawnedWith(<<Msg("system", system_prompt)>>
                     \o (IF tool_calls[idx].arguments.vals[2].leaf.v # ""
                         THEN <<Msg("user", tool_calls[idx].arguments.vals[2].leaf.v)>>
                         ELSE <<>>))]_vars

\* C16 witness: an agent was spawned under call id c1 and the next call of the
\* batch was dispatched with the new agent's id in place of "$c1".
C16_Witness ==
    /\ pc = "batch"
    /\ Len(agents) = 2
    /\ tool_calls[1].tool_name = "spawn_agent"
    /\ agents[2].history = <<Msg("system", system_prompt), Msg("user", "task")>>
    /\ agents[1].status = "RUNNING"
    /\ \E n \in 1..Len(invoked) :
         /\ invoked[n].index = 2
         /\ Orig(2)[1] = Scalar(Leaf("ref", "c1"))
         /\ invoked[n].args[1] = Scalar(Leaf("str", agents[2].id))

\* ------------------------------------------- claims on dispatch to a server
\* Call i is a well-formed call of a tool outside the in-process table.
ExternalCall(i) ==
    /\ ~Malformed(i)
    /\ tool_calls[i].tool_name # None
    /\ tool_calls[i].tool_name \notin all_tool_impls
    /\ ~HasUnknownRef(i)

\* The tool of call i was absent from the name->server map, or the child of
\* its server was not running when the call was dispatched.
Unavailable(i) ==
    \/ tool_calls[i].tool_name \notin DOMAIN tool_to_server_map
    \/ \E n \in 1..Len(invoked) : invoked[n].index = i /\ invoked[n].process # "running"

NamesTool(message, tool_name) ==
    message \in {"MCP tool dispatch for '" \o tool_name \o "' failed.",
                 "Tool '" \o tool_name \o "' not found."}

\* C19 (as stated): a call of a tool that is absent from the name->server
\* map, or whose server's child is not running, gets an error envelope whose
\* message names the tool (dispatch_tool_call returned None, or the Kernel
\* found the name in neither table), and the batch goes on.
C19_UnavailableToolIsEnvelope ==
    InBatch =>
      /\ \A i \in 1..Len(results) :
            (ExternalCall(i) /\ Unavailable(i)) =>
               /\ results[i].result.status = "error"
               /\ NamesTool(results[i].result.error, tool_calls[i].tool_name)
      /\ Len(results) = idx - 1

\* ------------------------------------------- claims on a server connection
\* C17: for one server, the write of a request and the wait for its response
\* are one critical section: while a thread is between its write and the
\* return of its wait, nothing else is written to the server and no other
\* thread is waiting on (consuming from) the response queue.
C17_OneRequestAtATime ==
    [][\A t \in Threads :
          tpc[t] = "reading" =>
              /\ Len(stdin') <= Len(stdin)
              /\ \A u \in Threads \ {t} : tpc[u] # "reading" /\ tpc'[u] # "reading"]_vars

\* A thread waits for its response with lines on the queue while the other
\* thread is free to call the manager.
C17_Witness ==
    /\ tpc["main"] = "reading"
    /\ tpc["worker"] = "idle"
    /\ stdin = <<treq["main"]>>
    /\ Len(stdout_queue) = MaxQueue

\* What send_request handed back is None or the response to its own request.
ReturnedMatchesRequest ==
    \A t \in Threads :
        tpc[t] = "returned" =>
            \/ tret[t] = NoLine
            \/ tret[t].kind = "response" /\ tret[t].id = treq[t]

\* C18: send_request returns, and returns None or the message whose id is the
\* id of the request it wrote; every other line is discarded.
C18_ResponseMatchesRequest ==
    /\ ReturnedMatchesRequest
    /\ \A t \in Threads : tpc[t] # "raised"

\* ------------------------------------------------------- claims on reload
\* The servers of a configuration that started and initialized.
Initialized(boots) ==
    {s \in ServerNames : Reached(boots, s) /\ boots[s] \in {"notools", "emptycap", "tools"}}

\* The tool names those servers publish: a server publishes its catalog when
\* it declares the tools capability.
Published(boots) ==
    UNION {Catalog(s) : s \in {x \in Initialized(boots) : boots[x] \in {"emptycap", "tools"}}}

\* The tool names of the servers whose tools/list was fetched.
Discovered(boots) == UNION {Catalog(s) : s \in {x \in Initialized(boots) : boots[x] = "tools"}}

\* The map holds the discovered names and nothing of an earlier configuration.
MapIsDiscovered ==
    /\ DOMAIN tool_to_server_map = Discovered(mcp_config)
    /\ \A n \in DOMAIN tool_to_server_map :
          /\ tool_to_server_map[n] \in Initialized(mcp_config)
          /\ mcp_config[tool_to_server_map[n]] = "tools"
          /\ n \in Catalog(tool_to_server_map[n])

\* C20: after reload the map contains exactly the tool names published by
\* the servers of the new configuration that started and initialized; names
\* of the previous configuration that are not published again are absent.
C20_ReloadRebuildsMap == DOMAIN tool_to_server_map = Published(mcp_config)

\* C21: reload quiesces first: when reload stops the servers no dispatch is
\* between the write of its request and the return of its wait.
C21_ReloadQuiesces == [][Reload => \A t \in Threads : tpc[t] # "reading"]_vars

\* ------------------------------------------------------ claims on startup
\* server.tools after startup(): the tools/list of a server that was asked.
ServerTools(boots, s) == IF s \in Initialized(boots) /\ boots[s] = "tools" THEN Catalog(s) ELSE {}

\* MCPManager.get_all_tools_metadata: the tools of the servers whose child runs.
get_all_tools_metadata(boots, procs) ==
    UNION {ServerTools(boots, s) : s \in {x \in DOMAIN procs : procs[x] = "running"}}

\* The servers of a configuration that cannot be brought up.
CannotComeUp(boots) == {s \in ServerNames : boots[s] \in {"nostart", "spawnerror", "noinit"}}

\* The servers of a configuration that come up when they are started.
CanComeUp(boots) == {s \in ServerNames : boots[s] \in {"notools", "emptycap", "tools"}}

\* C22: a server that cannot be brought up (invalid entry, spawn failure,
\* initialize failed or timed out) has no tool in the map or in
\* get_all_tools_metadata and no running child, and every other server of the
\* configuration that can come up was started.
C22_FailedServerIsSkipped ==
    \A s \in CannotComeUp(mcp_config) :
        /\ \A n \in DOMAIN tool_to_server_map : tool_to_server_map[n] # s
        /\ servers[s] # "running"
        /\ \A u \in CanComeUp(mcp_config) :
              /\ servers[u] # "none"
              /\ ServerTools(mcp_config, u) \subseteq DOMAIN tool_to_server_map
        /\ get_all_tools_metadata(mcp_config, servers)
              = UNION {ServerTools(mcp_config, u) :
                         u \in {x \in CanComeUp(mcp_config) : servers[x] = "running"}}

\* The same for the failures that start() reports by returning False and for
\* a failed initialize.
FailedServerIsSkippedUnlessRaised ==
    (\A s \in ServerNames : mcp_config[s] # "spawnerror") => C22_FailedServerIsSkipped

\* ----------------------------------------------------- claims on the gateway
Answered == gateway.request # NoRequest /\ gateway.reply \notin {NoReply, NoResponse}

\* C23: every 200 of the gateway has body {status: "success", result} with
\* result an object holding a content list and a boolean isError; every other
\* answer has body {status: "error", type, message} with the three fields.
C23_EnvelopeShapes ==
    Answered =>
        IF gateway.reply.code = 200
        THEN gateway.reply.status = "success" /\ gateway.reply.result = "object"
        ELSE /\ gateway.reply.status = "error"
             /\ gateway.reply.type # "absent"
             /\ gateway.reply.message # "absent"

\* The request came to the routing of do_POST: the endpoint is the tool route
\* and the body is a JSON object.
Routed == Answered /\ gateway.request.path = "/mcp_tool_call" /\ gateway.request.body = "object"

\* C24: the gateway answers 404 TOOL_NOT_FOUND exactly when the requested
\* tool_name is in neither the name->server map nor the internal table.
C24_NotFoundIffInNoTable ==
    Routed =>
        ((gateway.reply.code = 404 /\ gateway.reply.type = "TOOL_NOT_FOUND")
            <=> (/\ gateway.request.tool_name \notin DOMAIN tool_to_server_map
                 /\ gateway.request.tool_name \notin internal_tool_impls))

\* The tool of the request is an internal one the gateway found and called.
InternalCalled ==
    /\ Routed
    /\ gateway.request.tool_name \notin DOMAIN tool_to_server_map
    /\ gateway.request.tool_name \in internal_tool_impls

\* C25: a found tool that fails inside its implementation is answered 500
\* TOOL_EXECUTION_ERROR; 400 INVALID_TOOL_ARGUMENTS is answered only when the
\* arguments do not fit the tool's parameters.
C25_ImplementationErrorIs500 ==
    InternalCalled =>
        /\ (Fits(gateway.request.tool_name, gateway.request.arguments)
              /\ CallInternal(gateway.request.tool_name, gateway.request.arguments) # "returns")
            => (gateway.reply.code = 500 /\ gateway.reply.type = "TOOL_EXECUTION_ERROR")
        /\ gateway.reply.code = 400 =>
              ~Fits(gateway.request.tool_name, gateway.request.arguments)

\* C26: for every captured execution of tool code, however the function is
\* left (exit code zero or not, the timeout, a failure writing the files or
\* starting the interpreter), its temporary directory no longer exists.
C26_DirectoryGoneWhenLeft ==
    (sandbox.pc = "left" /\ ~sandbox.interactive) => ~sandbox.dir

\* A captured execution was left by the timeout.
C26_Witness ==
    sandbox.pc = "left" /\ ~sandbox.interactive /\ sandbox.error = "TimeoutExpired"

\* C27: the dependency pre-processor is idempotent: applied to its own
\* output, process_tool_code returns that output.
C27_PreprocessorIdempotent ==
    Len(preprocessor.outputs) = 2 => preprocessor.outputs[2] = preprocessor.outputs[1]

\* The dependency list of a text that starts with a block, else no names.
Emitted(text) ==
    IF Len(text) >= 2 /\ text[1].kind = "open" /\ text[2].kind = "dep" THEN text[2].pkgs ELSE {}

\* C28: the dependency list the pre-processor emits never contains the
\* reserved name tools.
C28_ToolsNeverEmitted ==
    \A i \in DOMAIN preprocessor.outputs : "tools" \notin Emitted(preprocessor.outputs[i])

\* With the Tools class used in the code, tools is not among the emitted names.
ToolsNotEmittedWhenUsed ==
    (preprocessor.outputs # <<>>
        /\ \E i \in DOMAIN preprocessor.code : preprocessor.code[i].kind = "use_tools")
    => "tools" \notin Emitted(preprocessor.outputs[1])

\* execute_tool has handled a call of a tool of self.tools, of the form name(...).
ToolReached ==
    /\ agentlib.done # NotExecuted
    /\ agentlib.call.parens
    /\ agentlib.call.name \in agentlib.call.tools

\* C29: the confirm callback gates exactly the high-risk tools (write_file,
\* edit_file, shell_command): the function of such a tool is invoked only if
\* a callback is set and returned true for that name and those arguments,
\* otherwise the result is "Tool execution cancelled by user." and the
\* function is not invoked; a low-risk tool is invoked once with the parsed
\* arguments and the callback is not consulted.
C29_ConfirmGatesHighRisk ==
    LET call == agentlib.call
        done == agentlib.done
        this == <<<<call.name, ParsedArgs(call.args_str)>>>>
    IN  agentlib.done # NotExecuted =>
          /\ call.name \in {"write_file", "edit_file", "shell_command"} =>
                /\ done.invoked # <<>> => call.confirm_callback = "true" /\ done.asked = this
                /\ ToolReached /\ call.confirm_callback # "true" =>
                      done.result = "Tool execution cancelled by user." /\ done.invoked = <<>>
                /\ ToolReached /\ call.confirm_callback = "true" => done.invoked = this
          /\ call.name \notin {"write_file", "edit_file", "shell_command"} =>
                /\ done.asked = <<>>
                /\ ToolReached => done.invoked = this

\* The callback was asked about a high-risk tool and refused it.
C29_Witness ==
    /\ ToolReached
    /\ agentlib.call.name = "write_file"
    /\ agentlib.call.confirm_callback = "false"
    /\ agentlib.done.asked # <<>>
    /\ agentlib.done.invoked = <<>>

\* C30: the calls of a batch are processed one at a time in array order, and
\* the TOOL_EXECUTION_RESULT list holds one {call_id, result} record per
\* processed call in that order: the k-th record is the result of the k-th
\* call. In the loop, results has one record for each call before idx; the
\* record at k carries the call_id the k-th call gave and no output but the
\* k-th call's; the implementations were invoked in the order of the array.
C30_ResultsInCallOrder ==
    pc = "batch" =>
      /\ Len(results) = idx - 1
      /\ idx - 1 <= Len(tool_calls)
      /\ \A k \in 1..Len(results) :
            /\ tool_calls[k].call_id # None => results[k].call_id = tool_calls[k].call_id
            /\ \A j \in 1..Len(tool_calls) :
                  results[k].result = Success(OutputOf(j)) => j = k
      /\ \A a \in 1..Len(invoked) :
            /\ invoked[a].index <= Len(results)
            /\ invoked[a].tool_name = tool_calls[invoked[a].index].tool_name
            /\ \A b \in 1..Len(invoked) : a < b => invoked[a].index < invoked[b].index

\* The loop is over a batch of two calls that both returned an output.
C30_Witness ==
    /\ pc = "batch"
    /\ Len(tool_calls) = 2
    /\ idx > Len(tool_calls)
    /\ results[1].result = Success(OutputOf(1))
    /\ results[2].result = Success(OutputOf(2))

\* The main loop got an agent from get_next_ready_agent and run_turn starts on it.
Picked == pc = "idle" /\ pc' = "llm"

\* The main loop got None from get_next_ready_agent and went on to read input
\* or to wake the root.
GotNone == pc = "idle" /\ pc' = "idle" /\ Len(agents') = Len(agents) /\ agents' # agents

\* C31: get_next_ready_agent returns the earliest-created agent whose status
\* is READY, returns None exactly when no agent is READY, and changes no
\* agent's status or history: the agent a turn starts on was READY and no
\* agent created before it was; the loop takes the path of None only with no
\* agent READY; and the step of the selection leaves every other agent as
\* it was.
C31_PicksEarliestReady ==
    [][/\ Picked =>
            /\ agents[cur'].status = "READY"
            /\ \A j \in 1..(cur' - 1) : agents[j].status # "READY"
            /\ \A j \in 1..Len(agents) : j # cur' => agents'[j] = agents[j]
       /\ GotNone => \A j \in 1..Len(agents) : agents[j].status # "READY"
       /\ (pc = "idle" /\ \E j \in 1..Len(agents) : agents[j].status = "READY")
             => (pc' = "llm" \/ UNCHANGED <<agents, pc>>)]_vars

\* A turn runs on the root while the agent created after it is READY too.
C31_Witness ==
    /\ pc = "llm"
    /\ cur = 1
    /\ Len(agents) = 2
    /\ agents[2].status = "READY"

\* C32: when the concurrent create_agent calls have returned, every agent a call
\* created is in the store, and at most one agent of the store is the main one.
AllReturned == \A t \in Threads : creating[t].at = "returned"

C32_EveryCreatedAgentStored ==
    AllReturned =>
        /\ \A t \in Threads : \E i \in 1..Len(agents) : agents[i] = creating[t].agent
        /\ Cardinality({i \in 1..Len(agents) : agents[i].is_main \/ agents[i].id = "main"}) <= 1

\* C33: when every tools/list request is answered with a page, the first request
\* carries no cursor, each later one the nextCursor of the page before it, the
\* last page got is the first whose nextCursor is empty, the list is the tools
\* of the pages in the order got, and every name of the list is recorded for
\* the server in the name -> server map.
PagesGot == [i \in 1..Len(discovery.requests) |-> discovery.listing[discovery.requests[i]]]

RECURSIVE Concatenation(_)
Concatenation(pages) ==
    IF pages = <<>> THEN <<>> ELSE pages[1].tools \o Concatenation(Tail(pages))

C33_PaginatedDiscovery ==
    LET n == Len(discovery.requests)
    IN (n > 0 /\ \A i \in 1..n : PagesGot[i].ok) =>
        /\ discovery.requests[1] = None
        /\ \A i \in 2..n : discovery.requests[i] = PagesGot[i - 1].nextCursor
        /\ \A i \in 1..n : (PagesGot[i].nextCursor \in {None, ""}) <=> (i = n)
        /\ discovery.full_list = Concatenation(PagesGot)
        /\ \A i \in 1..Len(discovery.full_list) :
             /\ discovery.full_list[i] \in DOMAIN tool_to_server_map
             /\ tool_to_server_map[discovery.full_list[i]] = "demo"

C33_Witness ==
    /\ Len(discovery.requests) = 3
    /\ \A i \in 1..3 : PagesGot[i].ok /\ PagesGot[i].tools # <<>>
    /\ discovery.full_list = <<"fetch", "greet", "multiply_numbers", "fetch">>
    /\ "greet" \in DOMAIN tool_to_server_map

\* C34: run_turn only appends to the history of its agent: no step of a turn
\* removes, reorders or rewrites a message at index >= 1 (of its agent or of
\* another), entering the turn replaces at most the content of history[0], and a
\* turn appends 0, 1 or 2 messages: when it returns, nothing (cancelled), one
\* final assistant message, or a tool block and its TOOL_EXECUTION_RESULT.
Extends(new, old) == Len(new) >= Len(old) /\ SubSeq(new, 1, Len(old)) = old

C35_CallIdsDistinct ==
    pc = "batch" =>
        \A i, j \in 1..Len(results) : i # j => results[i].call_id # results[j].call_id

\* The ids the Kernel generates within one batch are distinct from one another.
GeneratedIdsDistinct ==
    pc = "batch" =>
        \A i, j \in 1..Len(results) :
            (i # j /\ tool_calls[i].call_id = None /\ tool_calls[j].call_id = None)
                => results[i].call_id # results[j].call_id

\* The id generated for a call is the explicit call_id of the call after it.
GeneratedIdTaken ==
    /\ pc = "batch"
    /\ Len(results) = 2
    /\ tool_calls[1].call_id = None
    /\ tool_calls[2].call_id = "call_1"
    /\ results[1].call_id = "call_1"
    /\ results[2].call_id = "call_1"

\* C36: for every tool name, whatever the in-process table and the name -> server
\* map hold, the Kernel and the Gateway take the name to the same
\* implementation: both in-process, both the MCP server, or both nowhere.
C36_SameResolution ==
    \A impls \in {all_tool_impls, internal_tool_impls} :
        \A tool_name \in impls \cup DOMAIN tool_to_server_map \cup {"nope"} :
            KernelResolves(tool_name, impls, tool_to_server_map)
                = GatewayResolves(tool_name, impls, tool_to_server_map)

\* A name that stands in one of the two tables only is taken to the same place.
SameResolutionOfUnsharedNames ==
    \A tool_name \in (all_tool_impls \cup DOMAIN tool_to_server_map \cup {"nope"})
                     \ (all_tool_impls \cap DOMAIN tool_to_server_map) :
        KernelResolves(tool_name, all_tool_impls, tool_to_server_map)
            = GatewayResolves(tool_name, all_tool_impls, tool_to_server_map)

\* C37: every POST the gateway has handled was answered with one JSON response,
\* whatever its body.
C37_EveryPostAnswered ==
    (gateway.request # NoRequest /\ gateway.reply # NoReply) =>
        /\ gateway.reply # NoResponse
        /\ gateway.reply.code \in {200, 400, 404, 500}

\* A POST whose body is JSON is answered.
JsonBodyAnswered ==
    (gateway.request # NoRequest /\ gateway.reply # NoReply /\ gateway.request.body # "text")
        => gateway.reply.code \in {200, 400, 404, 500}

\* C38: under the main loop every READY agent is eventually given a turn.
C38_EveryReadyAgentRuns ==
    \A i \in 1..MaxLoopAgents :
        (i <= Len(loop.agents) /\ loop.agents[i].status = "READY") ~> (loop.cur = i)

\* The first READY agent of the store is given a turn.
FirstReadyAgentRuns ==
    \A i \in 1..MaxLoopAgents :
        (loop.cur = 0 /\ get_next_ready_agent(loop.agents) = i) ~> (loop.cur = i)

\* C39: a tool code is executed only while it is at most the
\* tool_interaction_limit-th of a run of identical submissions, so the same
\* code is never executed more than tool_interaction_limit times in a row; the
\* count is the length of the run that ends with the last submission, whatever
\* user inputs and aborts lie in the run; and a submission beyond the limit is
\* not executed: the turn ends with a final assistant message.
Streak(i) ==
    Cardinality({j \in 1..i : \A k \in j..i : repl.log[k].code = repl.log[i].code})

RefsToFailed(i) ==
    {p \in 1..Len(Orig(i)) :
        /\ Orig(i)[p].leaf.k = "ref"
        /\ \E j \in 1..(i - 1) : results[j].call_id = Orig(i)[p].leaf.v
        /\ \A j \in 1..(i - 1) : results[j].call_id = Orig(i)[p].leaf.v
                                    => results[j].result.status = "error"}

\* Call i names a tool and is no wait_for_agents call, and each of its
\* references names an earlier call.
PlainCallWithKnownRefs(i) ==
    /\ tool_calls[i].shape = "object"
    /\ tool_calls[i].arguments.isObj
    /\ tool_calls[i].tool_name \in all_tool_impls \cup DOMAIN tool_to_server_map
    /\ ~IsWait(i)
    /\ ~HasUnknownRef(i)

\* C40: a reference to an earlier call whose result is an error envelope
\* resolves to null without error: the referencing call gets no "Invalid
\* reference" envelope and is dispatched with null in place of the reference.
C40_RefToFailedCallIsNull ==
    InBatch =>
      \A i \in 1..Len(results) :
         (PlainCallWithKnownRefs(i) /\ RefsToFailed(i) # {}) =>
            /\ \A x \in RefIds : results[i].result.error # InvalidReferenceMessage(x)
            /\ \E n \in 1..Len(invoked) :
                 /\ invoked[n].index = i
                 /\ \A p \in RefsToFailed(i) :
                      invoked[n].args[p] = Subst(Orig(i)[p], NullValue)

\* The same for the references that stand where the resolver looks: at top
\* level and inside objects, not as elements of a list.
RefToFailedCallIsNullWhereResolved ==
    InBatch =>
      \A i \in 1..Len(results) :
         (PlainCallWithKnownRefs(i) /\ RefsToFailed(i) # {}) =>
            /\ \A x \in RefIds : results[i].result.error # InvalidReferenceMessage(x)
            /\ \E n \in 1..Len(invoked) :
                 /\ invoked[n].index = i
                 /\ \A p \in RefsToFailed(i) :
                      ~ResolveValue(Orig(i)[p], EmptyMap).ok =>
                          invoked[n].args[p] = Subst(Orig(i)[p], NullValue)

NullPassedForFailedCall ==
    /\ pc = "batch"
    /\ Len(results) = 2
    /\ results[1].result.status = "error"
    /\ PlainCallWithKnownRefs(2)
    /\ RefsToFailed(2) = {1}
    /\ Orig(2)[1].path = <<"obj">>
    /\ invoked[Len(invoked)].index = 2
    /\ invoked[Len(invoked)].args[1] = Value(<<"obj">>, Leaf("null", ""))

====
